---- MODULE Spec2Model ----
(***************************************************************************)
(* AfriSuno-Vibe: the offline mastering engine (services/audioEngine.ts,   *)
(* src/unnamed/part_002 lines 380-758), the analysis pre-processor of      *)
(* VibeCloner (part_002 lines 101-247) and the AudioEnhancer view          *)
(* (src/unnamed/part_001).                                                 *)
(*                                                                         *)
(* Numbers.  Real-valued node parameters (gains, frequencies, Q, delay     *)
(* times, dB values) are integers in units of 10^-4: 0.02 s is 200, 85 Hz  *)
(* is 850000, -5.5 dB is -55000.  An effect intensity is an integer in     *)
(* tenths (the sliders' step, part_001 line 257): 0.2 is 2.  Samples are   *)
(* integers in thousandths of full scale: 0.95 is 950.                     *)
(***************************************************************************)
EXTENDS Integers, Sequences, FiniteSets, TLC

VARIABLES
    fxCtx,      \* effect harness: the context's graph (nodes, connections, started sources)
    fxChain,    \* effect harness: the node the next effect unit is given as input
    fxLast,     \* effect harness: the last call [unit, input, intensity, out]
    fxCalls,    \* effect harness: number of calls made
    encBuffer,  \* encoder harness: the AudioBuffer handed to an encoder
    encWav,     \* encoder harness: the bytes audioBufferToWav returned (<<>> before the call)
    encMp3,     \* encoder harness: what audioBufferToMp3 did and returned
    encMono,    \* encoder harness: the bytes bufferToWavBlob returned (<<>> before the call)
    pa,         \* the latest processAudio call: its position, arguments, locals and outcome
    pb,         \* a second processAudio call, made while the first may be in flight
    silk,       \* makeSilkCurve: the index looked at and the entry the loop wrote there
    app,            \* App: the values of its useState hooks (index.tsx lines 72-85)
    vibes,          \* VibeLibrary: the list shown (its useState, part_002 line 11)
    localStorage,   \* the item stored under 'afriSunoVibes': [present, text]
    aiCalls,        \* the calls of the gemini service in flight, [id, kind]
    effects,        \* the useEffect callbacks due after the last render
    made,           \* how many service calls and saves were made, and the clock
    file,           \* AudioEnhancer: the selected File (NoFile for null)
    isProcessing,   \* AudioEnhancer
    processedBlob,  \* AudioEnhancer: the Blob offered for download (NoBlob for null)
    options,        \* AudioEnhancer: the AudioProcessOptions of the panel
    alert,          \* AudioEnhancer: the message of the last alert() shown ("" for none)
    downloaded,     \* AudioEnhancer: the last download, [name, blob]
    edits,          \* AudioEnhancer: how many times the options were edited
    oa,             \* the latest optimizeAudioForAnalysis call of VibeCloner
    vcFile,         \* VibeCloner: file (NoFile for null)
    isAnalyzing,    \* VibeCloner
    loadingStage,   \* VibeCloner
    analysis,       \* VibeCloner: the AudioAnalysis shown (NoAnalysis for null)
    error,          \* VibeCloner: the error shown ("" for null)
    vcAlert,        \* VibeCloner: the message of the last alert() shown ("" for none)
    requests,       \* the calls of analyzeReferenceAudio made so far, in order
    va              \* VibeCloner: the handleAnalyze call, its position and its file

fxVars == <<fxCtx, fxChain, fxLast, fxCalls>>
encVars == <<encBuffer, encWav, encMp3, encMono>>
uiVars == <<file, isProcessing, processedBlob, options, alert, downloaded, edits>>
anVars == <<vcFile, isAnalyzing, loadingStage, analysis, error, vcAlert, requests, va>>
vcVars == <<oa, anVars>>
appVars == <<app, vibes, localStorage, aiCalls, effects, made>>
otherVars == <<silk, appVars>>

vars == <<fxCtx, fxChain, fxLast, fxCalls, encBuffer, encWav, encMp3, encMono, pa, pb, silk,
          app, vibes, localStorage, aiCalls, effects, made,
          file, isProcessing, processedBlob, options, alert, downloaded, edits, oa,
          vcFile, isAnalyzing, loadingStage, analysis, error, vcAlert, requests, va>>

(***************************************************************************)
(* Bounds of the model.                                                    *)
(***************************************************************************)
MaxFxCalls == 3
MaxEdits == 1           \* edits of the options panel in one run of the enhancer view
MaxFrames == 2          \* frames of the enumerated buffers
MaxSampleMilli == 1200  \* largest sample magnitude of the one-frame buffers, in thousandths

(***************************************************************************)
(* The Web Audio graph of one context.  A node is its position in the      *)
(* context's creation order; `name` is the variable the source binds it    *)
(* to, `unit` the function that created it.  A connection goes from a      *)
(* node's output to a node's input (param = "") or to one of its           *)
(* AudioParams (param = the parameter's name).                             *)
(***************************************************************************)
Node(name, unit, type, kind, p) ==
    [name |-> name, unit |-> unit, type |-> type, kind |-> kind, p |-> p, sched |-> <<>>]

\* new OfflineAudioContext(numberOfChannels, length, sampleRate): the context owns
\* its destination node
OfflineAudioContext(numberOfChannels, length, sampleRate) ==
    [nodes |-> << Node("destination", "context", "destination", "", {}) >>,
     edges |-> {},
     started |-> {},
     numberOfChannels |-> numberOfChannels,
     length |-> length,
     sampleRate |-> sampleRate]

Destination == 1

\* ctx.createX(): the new node is the last one of the creation order
Create(ctx, node) == [ctx EXCEPT !.nodes = Append(@, node)]
Last(ctx) == Len(ctx.nodes)

\* a.connect(b, output, input)
Connect(ctx, a, b, output, input) ==
    [ctx EXCEPT !.edges = @ \cup {[from |-> a, to |-> b, param |-> "", output |-> output, input |-> input]}]

\* a.connect(b.param)
ConnectParam(ctx, a, b, param) ==
    [ctx EXCEPT !.edges = @ \cup {[from |-> a, to |-> b, param |-> param, output |-> 0, input |-> 0]}]

\* osc.start() / source.start()
Start(ctx, a) == [ctx EXCEPT !.started = @ \cup {a}]

\* c * intensity, c in units of 10^-4 and intensity in tenths
Times(c, intensity) == (c * intensity) \div 10

(***************************************************************************)
(* Creative FX helpers.  Each returns [ctx, out]: the graph after the      *)
(* call and the node it returns.                                           *)
(***************************************************************************)
createChorus(ctx, input, intensity) ==
    IF intensity <= 0 THEN [ctx |-> ctx, out |-> input]
    ELSE
    LET c1 == Create(ctx, Node("splitter", "createChorus", "splitter", "", {}))
        splitter == Last(c1)
        c2 == Create(c1, Node("merger", "createChorus", "merger", "", {}))
        merger == Last(c2)
        c3 == Connect(c2, input, splitter, 0, 0)
        c4 == Create(c3, Node("delayL", "createChorus", "delay", "", {<<"delayTime", 200>>}))
        delayL == Last(c4)
        c5 == Create(c4, Node("delayR", "createChorus", "delay", "", {<<"delayTime", 250>>}))
        delayR == Last(c5)
        c6 == Create(c5, Node("osc", "createChorus", "oscillator", "sine", {<<"frequency", 15000>>}))
        osc == Last(c6)
        c7 == Create(c6, Node("gainL", "createChorus", "gain", "", {<<"gain", Times(20, intensity)>>}))
        gainL == Last(c7)
        c8 == Create(c7, Node("gainR", "createChorus", "gain", "", {<<"gain", Times(-20, intensity)>>}))
        gainR == Last(c8)
        c9 == ConnectParam(Connect(c8, osc, gainL, 0, 0), gainL, delayL, "delayTime")
        c10 == ConnectParam(Connect(c9, osc, gainR, 0, 0), gainR, delayR, "delayTime")
        c11 == Start(c10, osc)
        c12 == Connect(c11, splitter, delayL, 0, 0)
        c13 == Connect(c12, splitter, delayR, 1, 0)
        c14 == Connect(c13, delayL, merger, 0, 0)
        c15 == Connect(c14, delayR, merger, 0, 1)
        c16 == Create(c15, Node("wetGain", "createChorus", "gain", "", {<<"gain", Times(5000, intensity)>>}))
        wetGain == Last(c16)
        c17 == Connect(c16, merger, wetGain, 0, 0)
        c18 == Connect(c17, input, wetGain, 0, 0)
    IN [ctx |-> c18, out |-> wetGain]

\* the loop of createPhaser: each pass creates a filter, chains it after `node`
\* and pushes it on `filters`
RECURSIVE PhaserStages(_, _, _, _)
PhaserStages(ctx, node, filters, i) ==
    IF i >= 4 THEN [ctx |-> ctx, node |-> node, filters |-> filters]
    ELSE
    LET c1 == Create(ctx, Node("filter", "createPhaser", "biquad", "allpass", {<<"frequency", 10000000>>}))
        filter == Last(c1)
        c2 == Connect(c1, node, filter, 0, 0)
    IN PhaserStages(c2, filter, Append(filters, filter), i + 1)

\* filters.forEach(f => lfoGain.connect(f.frequency))
RECURSIVE ConnectAllFrequency(_, _, _)
ConnectAllFrequency(ctx, lfoGain, filters) ==
    IF filters = <<>> THEN ctx
    ELSE ConnectAllFrequency(ConnectParam(ctx, lfoGain, Head(filters), "frequency"), lfoGain, Tail(filters))

\* mutant: the feedback is returned to the input node, not to the first filter
createPhaser_FeedbackToInput(ctx, input, intensity) ==
    IF intensity <= 0 THEN [ctx |-> ctx, out |-> input]
    ELSE
    LET st == PhaserStages(ctx, input, <<>>, 0)
        filters == st.filters
        node == st.node
        c1 == Create(st.ctx, Node("lfo", "createPhaser", "oscillator", "triangle", {<<"frequency", 5000>>}))
        lfo == Last(c1)
        c2 == Create(c1, Node("lfoGain", "createPhaser", "gain", "", {<<"gain", Times(8000000, intensity)>>}))
        lfoGain == Last(c2)
        c3 == Connect(c2, lfo, lfoGain, 0, 0)
        c4 == ConnectAllFrequency(c3, lfoGain, filters)
        c5 == Start(c4, lfo)
        c6 == Create(c5, Node("mix", "createPhaser", "gain", "", {<<"gain", 10000>>}))
        mix == Last(c6)
        c7 == Connect(c6, node, mix, 0, 0)
        c8 == Connect(c7, input, mix, 0, 0)
        c9 == Create(c8, Node("feedback", "createPhaser", "gain", "", {<<"gain", Times(4000, intensity)>>}))
        feedback == Last(c9)
        c10 == Connect(c9, node, feedback, 0, 0)
        c11 == Connect(c10, feedback, input, 0, 0)
    IN [ctx |-> c11, out |-> mix]

createPhaser(ctx, input, intensity) ==
    IF intensity <= 0 THEN [ctx |-> ctx, out |-> input]
    ELSE
    LET st == PhaserStages(ctx, input, <<>>, 0)
        filters == st.filters
        node == st.node
        c1 == Create(st.ctx, Node("lfo", "createPhaser", "oscillator", "triangle", {<<"frequency", 5000>>}))
        lfo == Last(c1)
        c2 == Create(c1, Node("lfoGain", "createPhaser", "gain", "", {<<"gain", Times(8000000, intensity)>>}))
        lfoGain == Last(c2)
        c3 == Connect(c2, lfo, lfoGain, 0, 0)
        c4 == ConnectAllFrequency(c3, lfoGain, filters)
        c5 == Start(c4, lfo)
        c6 == Create(c5, Node("mix", "createPhaser", "gain", "", {<<"gain", 10000>>}))
        mix == Last(c6)
        c7 == Connect(c6, node, mix, 0, 0)
        c8 == Connect(c7, input, mix, 0, 0)
        c9 == Create(c8, Node("feedback", "createPhaser", "gain", "", {<<"gain", Times(4000, intensity)>>}))
        feedback == Last(c9)
        c10 == Connect(c9, node, feedback, 0, 0)
        c11 == Connect(c10, feedback, filters[1], 0, 0)
    IN [ctx |-> c11, out |-> mix]

\* mutant: only a negative intensity is bypassed
createFlanger_ZeroBuilds(ctx, input, intensity) ==
    IF intensity < 0 THEN [ctx |-> ctx, out |-> input]
    ELSE
    LET c1 == Create(ctx, Node("delay", "createFlanger", "delay", "", {<<"delayTime", 30>>}))
        delay == Last(c1)
        c2 == Create(c1, Node("feedback", "createFlanger", "gain", "", {<<"gain", Times(5000, intensity)>>}))
        feedback == Last(c2)
        c3 == Create(c2, Node("lfo", "createFlanger", "oscillator", "sine", {<<"frequency", 3000>>}))
        lfo == Last(c3)
        c4 == Create(c3, Node("lfoGain", "createFlanger", "gain", "", {<<"gain", Times(20, intensity)>>}))
        lfoGain == Last(c4)
        c5 == ConnectParam(Connect(c4, lfo, lfoGain, 0, 0), lfoGain, delay, "delayTime")
        c6 == Start(c5, lfo)
        c7 == Connect(c6, input, delay, 0, 0)
        c8 == Connect(c7, delay, feedback, 0, 0)
        c9 == Connect(c8, feedback, delay, 0, 0)
        c10 == Create(c9, Node("wet", "createFlanger", "gain", "", {<<"gain", 5000>>}))
        wet == Last(c10)
        c11 == Connect(c10, delay, wet, 0, 0)
        c12 == Connect(c11, input, wet, 0, 0)
    IN [ctx |-> c12, out |-> wet]

createFlanger(ctx, input, intensity) ==
    IF intensity <= 0 THEN [ctx |-> ctx, out |-> input]
    ELSE
    LET c1 == Create(ctx, Node("delay", "createFlanger", "delay", "", {<<"delayTime", 30>>}))
        delay == Last(c1)
        c2 == Create(c1, Node("feedback", "createFlanger", "gain", "", {<<"gain", Times(5000, intensity)>>}))
        feedback == Last(c2)
        c3 == Create(c2, Node("lfo", "createFlanger", "oscillator", "sine", {<<"frequency", 3000>>}))
        lfo == Last(c3)
        c4 == Create(c3, Node("lfoGain", "createFlanger", "gain", "", {<<"gain", Times(20, intensity)>>}))
        lfoGain == Last(c4)
        c5 == ConnectParam(Connect(c4, lfo, lfoGain, 0, 0), lfoGain, delay, "delayTime")
        c6 == Start(c5, lfo)
        c7 == Connect(c6, input, delay, 0, 0)
        c8 == Connect(c7, delay, feedback, 0, 0)
        c9 == Connect(c8, feedback, delay, 0, 0)
        c10 == Create(c9, Node("wet", "createFlanger", "gain", "", {<<"gain", 5000>>}))
        wet == Last(c10)
        c11 == Connect(c10, delay, wet, 0, 0)
        c12 == Connect(c11, input, wet, 0, 0)
    IN [ctx |-> c12, out |-> wet]

(***************************************************************************)
(* processAudio: the mastering chain (part_002 lines 605-758).             *)
(*                                                                         *)
(* An AudioBuffer is [numberOfChannels, sampleRate, length]; its duration  *)
(* is length / sampleRate seconds.  A time of the fade schedule is a       *)
(* fraction <<n, d>> of seconds.  A gain set from Math.pow(10, dB / 20) is *)
(* kept as the parameter "gainDb", the dB value.                           *)
(***************************************************************************)
RECURSIVE GCD(_, _)
GCD(a, b) == IF b = 0 THEN a ELSE GCD(b, a % b)

\* Math.ceil(n / d) and Math.floor(n / d) for n >= 0, d > 0
CeilDiv(n, d) == (n + d - 1) \div d
FloorDiv(n, d) == n \div d

\* mutant: Math.floor in place of Math.ceil
CeilFrames_Floor(audioBuffer, rate) ==
    LET g == GCD(rate, audioBuffer.sampleRate)
    IN FloorDiv(audioBuffer.length * (rate \div g), audioBuffer.sampleRate \div g)

\* Math.ceil(audioBuffer.duration * rate), the product taken over the reduced
\* fraction rate / sampleRate
CeilFrames(audioBuffer, rate) ==
    LET g == GCD(rate, audioBuffer.sampleRate)
    IN CeilDiv(audioBuffer.length * (rate \div g), audioBuffer.sampleRate \div g)

TARGET_SAMPLE_RATE == 48000

\* mutant: the medium intensity gets settings of its own, between low and high
MasteringConfig_ThreeLevels(opts) ==
    [safetyHeadroom |-> -200000,
     compThreshold |-> IF opts.intensity = "high" THEN -280000
                       ELSE IF opts.intensity = "medium" THEN -260000 ELSE -240000,
     compRatio |-> IF opts.intensity = "high" THEN 25000
                   ELSE IF opts.intensity = "medium" THEN 20000 ELSE 15000,
     finalGain |-> IF opts.intensity = "high" THEN 150000
                   ELSE IF opts.intensity = "medium" THEN 140000 ELSE 130000]

\* mutant: the make-up gain is lowered for the wide stereo setting
MasteringConfig_WidthAware(opts) ==
    [safetyHeadroom |-> -200000,
     compThreshold |-> IF opts.intensity = "high" THEN -280000 ELSE -240000,
     compRatio |-> IF opts.intensity = "high" THEN 25000 ELSE 15000,
     finalGain |-> IF opts.stereoWidth = "wide" THEN 120000
                   ELSE IF opts.intensity = "high" THEN 150000 ELSE 130000]

\* const config = {...}
MasteringConfig(opts) ==
    [safetyHeadroom |-> -200000,
     compThreshold |-> IF opts.intensity = "high" THEN -280000 ELSE -240000,
     compRatio |-> IF opts.intensity = "high" THEN 25000 ELSE 15000,
     finalGain |-> IF opts.intensity = "high" THEN 150000 ELSE 130000]

\* The chain under construction: the context, the buffer source and `chain`, the
\* node the next stage connects from.
SourceStage(audioBuffer) ==
    LET lengthInFrames == CeilFrames(audioBuffer, TARGET_SAMPLE_RATE)
        c0 == OfflineAudioContext(2, lengthInFrames, TARGET_SAMPLE_RATE)
        c1 == Create(c0, Node("source", "processAudio", "bufferSource", "",
                              {<<"buffer.numberOfChannels", audioBuffer.numberOfChannels>>,
                               <<"buffer.sampleRate", audioBuffer.sampleRate>>,
                               <<"buffer.length", audioBuffer.length>>}))
    IN [ctx |-> c1, source |-> Last(c1), chain |-> 0]

TrimStage(s, config) ==
    LET c1 == Create(s.ctx, Node("inputNode", "processAudio", "gain", "", {<<"gainDb", config.safetyHeadroom>>}))
        inputNode == Last(c1)
        c2 == Connect(c1, s.source, inputNode, 0, 0)
    IN [s EXCEPT !.ctx = c2, !.chain = inputNode]

HighPassStage(s) ==
    LET c1 == Create(s.ctx, Node("hpf", "processAudio", "biquad", "highpass",
                                 {<<"frequency", 850000>>, <<"Q", 7070>>}))
        hpf == Last(c1)
        c2 == Connect(c1, s.chain, hpf, 0, 0)
    IN [s EXCEPT !.ctx = c2, !.chain = hpf]

\* mutant: the node createChorus returns is dropped, `chain` stays where it was
ChorusStage_ReturnDropped(s, opts) ==
    IF opts.creativeFx.chorus > 0
    THEN LET r == createChorus(s.ctx, s.chain, opts.creativeFx.chorus)
         IN [s EXCEPT !.ctx = r.ctx]
    ELSE s

ChorusStage(s, opts) ==
    IF opts.creativeFx.chorus > 0
    THEN LET r == createChorus(s.ctx, s.chain, opts.creativeFx.chorus)
         IN [s EXCEPT !.ctx = r.ctx, !.chain = r.out]
    ELSE s

PhaserStage(s, opts) ==
    IF opts.creativeFx.phaser > 0
    THEN LET r == createPhaser(s.ctx, s.chain, opts.creativeFx.phaser)
         IN [s EXCEPT !.ctx = r.ctx, !.chain = r.out]
    ELSE s

FlangerStage(s, opts) ==
    IF opts.creativeFx.flanger > 0
    THEN LET r == createFlanger(s.ctx, s.chain, opts.creativeFx.flanger)
         IN [s EXCEPT !.ctx = r.ctx, !.chain = r.out]
    ELSE s

NaturalizerStage(s, opts) ==
    IF opts.enableNaturalizer
    THEN LET c1 == Create(s.ctx, Node("notch1", "processAudio", "biquad", "peaking",
                                      {<<"frequency", 28000000>>, <<"Q", 40000>>, <<"gain", -50000>>}))
             notch1 == Last(c1)
             c2 == Create(c1, Node("notch2", "processAudio", "biquad", "peaking",
                                   {<<"frequency", 45000000>>, <<"Q", 50000>>, <<"gain", -55000>>}))
             notch2 == Last(c2)
             c3 == Create(c2, Node("notch3", "processAudio", "biquad", "peaking",
                                   {<<"frequency", 62000000>>, <<"Q", 60000>>, <<"gain", -40000>>}))
             notch3 == Last(c3)
             c4 == Create(c3, Node("silkTilt", "processAudio", "biquad", "highshelf",
                                   {<<"frequency", 85000000>>, <<"gain", -50000>>}))
             silkTilt == Last(c4)
             c5 == Connect(c4, s.chain, notch1, 0, 0)
             c6 == Connect(c5, notch1, notch2, 0, 0)
             c7 == Connect(c6, notch2, notch3, 0, 0)
             c8 == Connect(c7, notch3, silkTilt, 0, 0)
         IN [s EXCEPT !.ctx = c8, !.chain = silkTilt]
    ELSE s

TonalStage(s, opts) ==
    LET c1 == Create(s.ctx, Node("lowShelf", "processAudio", "biquad", "lowshelf",
                                 {<<"frequency", 1800000>>,
                                  <<"gain", IF opts.preset = "electronic" THEN 15000 ELSE 5000>>}))
        lowShelf == Last(c1)
        c2 == Create(c1, Node("highShelf", "processAudio", "biquad", "highshelf",
                              {<<"frequency", 110000000>>,
                               <<"gain", IF opts.preset = "pop" THEN 15000 ELSE 5000>>}))
        highShelf == Last(c2)
        c3 == Connect(c2, s.chain, lowShelf, 0, 0)
        c4 == Connect(c3, lowShelf, highShelf, 0, 0)
    IN [s EXCEPT !.ctx = c4, !.chain = highShelf]

CompressorStage(s, config) ==
    LET c1 == Create(s.ctx, Node("comp", "processAudio", "compressor", "",
                                 {<<"threshold", config.compThreshold>>, <<"knee", 350000>>,
                                  <<"ratio", config.compRatio>>, <<"attack", 400>>, <<"release", 2500>>}))
        comp == Last(c1)
        c2 == Connect(c1, s.chain, comp, 0, 0)
    IN [s EXCEPT !.ctx = c2, !.chain = comp]

WarmthStage(s, opts) ==
    IF opts.enableWarmth
    THEN LET c1 == Create(s.ctx, Node("clipper", "processAudio", "waveshaper", "makeSilkCurve", {}))
             clipper == Last(c1)
             c2 == Connect(c1, s.chain, clipper, 0, 0)
         IN [s EXCEPT !.ctx = c2, !.chain = clipper]
    ELSE s

LevelingStage(s, config) ==
    LET c1 == Create(s.ctx, Node("makeup", "processAudio", "gain", "", {<<"gainDb", config.finalGain>>}))
        makeup == Last(c1)
        c2 == Connect(c1, s.chain, makeup, 0, 0)
        c3 == Create(c2, Node("limiter", "processAudio", "compressor", "",
                              {<<"threshold", -20000>>, <<"knee", 0>>, <<"ratio", 200000>>,
                               <<"attack", 10>>, <<"release", 1500>>}))
        limiter == Last(c3)
        c4 == Connect(c3, makeup, limiter, 0, 0)
    IN [s EXCEPT !.ctx = c4, !.chain = limiter]

\* Math.max(0, audioBuffer.duration - 3.0), as a fraction of seconds
FadeOutStart(audioBuffer) ==
    IF audioBuffer.length - 3 * audioBuffer.sampleRate > 0
    THEN <<audioBuffer.length - 3 * audioBuffer.sampleRate, audioBuffer.sampleRate>>
    ELSE <<0, 1>>

\* The times of the schedule are doubles.  `time` is the exact fraction and
\* `ulps` the sign of (the double the code computes) - (the double of that
\* fraction), which decides the order of two events whose exact times are equal.
\* audioBuffer.duration and the literals 0 and 0.8 are the doubles of their
\* fractions.  duration - 3.0 is computed without rounding for a duration in
\* [3, 4), so it is the double of its fraction unless the fraction is 4/5: there
\* duration is the double of 3.8 and 3.8 - 3.0 gives 0.7999999999999998, below the
\* double of 0.8.
FadeOutStartUlps(audioBuffer) ==
    IF 5 * audioBuffer.length = 19 * audioBuffer.sampleRate THEN -1 ELSE 0

FadesStage(s, opts, audioBuffer) ==
    IF opts.enableFades
    THEN LET fader == Last(s.ctx) + 1
             sched == << [op |-> "setValueAtTime", value |-> 0, time |-> <<0, 1>>, ulps |-> 0],
                         [op |-> "linearRampToValueAtTime", value |-> 1, time |-> <<4, 5>>, ulps |-> 0],
                         [op |-> "setValueAtTime", value |-> 1, time |-> FadeOutStart(audioBuffer),
                          ulps |-> FadeOutStartUlps(audioBuffer)],
                         [op |-> "linearRampToValueAtTime", value |-> 0,
                          time |-> <<audioBuffer.length, audioBuffer.sampleRate>>, ulps |-> 0] >>
             c1 == Create(s.ctx, [Node("fader", "processAudio", "gain", "", {<<"gain", 10000>>})
                                  EXCEPT !.sched = sched])
             c2 == Connect(c1, s.chain, fader, 0, 0)
         IN [s EXCEPT !.ctx = c2, !.chain = fader]
    ELSE s

\* chain.connect(offlineCtx.destination); source.start()
FinishChain(s) ==
    [s EXCEPT !.ctx = Start(Connect(s.ctx, s.chain, Destination, 0, 0), s.source)]

\* mutant: for the lofi preset the saturation is placed ahead of the compressor
BuildChain_LofiWarmthFirst(audioBuffer, opts) ==
    LET config == MasteringConfig(opts)
        s1 == TrimStage(SourceStage(audioBuffer), config)
        s2 == HighPassStage(s1)
        s3 == FlangerStage(PhaserStage(ChorusStage(s2, opts), opts), opts)
        s4 == NaturalizerStage(s3, opts)
        s5 == TonalStage(s4, opts)
        s7 == IF opts.preset = "lofi"
              THEN CompressorStage(WarmthStage(s5, opts), config)
              ELSE WarmthStage(CompressorStage(s5, config), opts)
        s8 == LevelingStage(s7, config)
        s9 == FadesStage(s8, opts, audioBuffer)
    IN FinishChain(s9)

\* Lines 612-750: everything processAudio does between the decode and the render.
BuildChain(audioBuffer, opts) ==
    LET config == MasteringConfig(opts)
        s1 == TrimStage(SourceStage(audioBuffer), config)
        s2 == HighPassStage(s1)
        s3 == FlangerStage(PhaserStage(ChorusStage(s2, opts), opts), opts)
        s4 == NaturalizerStage(s3, opts)
        s5 == TonalStage(s4, opts)
        s6 == CompressorStage(s5, config)
        s7 == WarmthStage(s6, opts)
        s8 == LevelingStage(s7, config)
        s9 == FadesStage(s8, opts, audioBuffer)
    IN FinishChain(s9)


(***************************************************************************)
(* The encoders (part_002 lines 518-603).                                  *)
(*                                                                         *)
(* A buffer with samples is [numberOfChannels, sampleRate, length,         *)
(* channelData], channelData[c + 1][i + 1] being getChannelData(c)[i] in   *)
(* thousandths.  A byte array is a sequence of 0..255, byte offset k at    *)
(* position k + 1.                                                         *)
(***************************************************************************)
Max(a, b) == IF a >= b THEN a ELSE b
Min(a, b) == IF a <= b THEN a ELSE b

\* the integer part of n / d (ToIntegerOrInfinity: truncation toward zero), d > 0
Trunc(n, d) == IF n >= 0 THEN n \div d ELSE -((-n) \div d)

\* storing an integer in an Int16Array element or with DataView.setInt16: modulo
\* 2^16 into -32768..32767
ToInt16(x) == ((x + 32768) % 65536) - 32768

\* the two bytes of a 16-bit value, little-endian
Int16Bytes(x) == LET u == x % 65536 IN << u % 256, u \div 256 >>

\* mutant: the clamp is to full scale, [-1, 1]
WavSample_FullScale(sample) ==
    LET s == Max(-1000, Min(1000, sample))
        scaled == IF s < 0 THEN s * 32768 ELSE s * 32767
    IN ToInt16(Trunc(scaled, 1000))

\* mutant: the sample is biased to the unsigned convention of 8-bit PCM
WavSample_Unsigned(sample) ==
    LET s == Max(-950, Min(950, sample))
    IN ToInt16(Trunc((s + 1000) * 32767, 2000))

\* lines 556-558: the value view.setInt16 stores for `sample`
WavSample(sample) ==
    LET s == Max(-950, Min(950, sample))
        scaled == IF s < 0 THEN s * 32768 ELSE s * 32767
    IN ToInt16(Trunc(scaled, 1000))

\* lines 580-581 and 584-585: the value stored in leftInt16[i] / rightInt16[i]
Mp3Sample(sample) ==
    LET l == Max(-950, Min(950, sample))
        scaled == IF l < 0 THEN l * 32768 ELSE l * 32767
    IN ToInt16(Trunc(scaled, 1000))

Zeros(n) == [k \in 1..n |-> 0]

\* view.setUint8(offset + i, string.charCodeAt(i)) for every i
WriteString(view, offset, codes) ==
    [k \in DOMAIN view |->
        IF k - 1 >= offset /\ k - 1 < offset + Len(codes) THEN codes[k - offset] ELSE view[k]]

\* view.setUint32(offset, v, true), v below 2^31
SetUint32(view, offset, v) ==
    [k \in DOMAIN view |->
        IF k - 1 = offset THEN v % 256
        ELSE IF k - 1 = offset + 1 THEN (v \div 256) % 256
        ELSE IF k - 1 = offset + 2 THEN (v \div 65536) % 256
        ELSE IF k - 1 = offset + 3 THEN (v \div 16777216) % 256
        ELSE view[k]]

\* view.setUint16(offset, v, true)
SetUint16(view, offset, v) ==
    [k \in DOMAIN view |->
        IF k - 1 = offset THEN v % 256
        ELSE IF k - 1 = offset + 1 THEN (v \div 256) % 256
        ELSE view[k]]

\* lines 538-550: the header written at offsets 0..43
WavHeader(numChannels, sampleRate, dataLength) ==
    LET format == 1
        bitDepth == 16
        bytesPerSample == bitDepth \div 8
        blockAlign == numChannels * bytesPerSample
        v1 == WriteString(Zeros(44), 0, <<82, 73, 70, 70>>)                 \* 'RIFF'
        v2 == SetUint32(v1, 4, 36 + dataLength * numChannels * bytesPerSample)
        v3 == WriteString(v2, 8, <<87, 65, 86, 69>>)                        \* 'WAVE'
        v4 == WriteString(v3, 12, <<102, 109, 116, 32>>)                    \* 'fmt '
        v5 == SetUint32(v4, 16, 16)
        v6 == SetUint16(v5, 20, format)
        v7 == SetUint16(v6, 22, numChannels)
        v8 == SetUint32(v7, 24, sampleRate)
        v9 == SetUint32(v8, 28, sampleRate * blockAlign)
        v10 == SetUint16(v9, 32, blockAlign)
        v11 == SetUint16(v10, 34, bitDepth)
        v12 == WriteString(v11, 36, <<100, 97, 116, 97>>)                   \* 'data'
        v13 == SetUint32(v12, 40, dataLength * numChannels * bytesPerSample)
    IN v13

\* mutant: the loops are nested the other way round, channel by channel
WavLoopSample_Planar(buffer, n) ==
    LET dataLength == Len(buffer.channelData[1])
        channel == n \div dataLength
        i == n % dataLength
    IN WavSample(buffer.channelData[channel + 1][i + 1])

\* lines 552-561: pass n (from 0) of the nested loop handles frame n div C of
\* channel n mod C and writes at offset 44 + 2n
WavLoopSample(buffer, n) ==
    LET numChannels == buffer.numberOfChannels
        i == n \div numChannels
        channel == n % numChannels
    IN WavSample(buffer.channelData[channel + 1][i + 1])

\* the bytes of the Blob audioBufferToWav returns
audioBufferToWav(buffer) ==
    LET numChannels == buffer.numberOfChannels
        dataLength == Len(buffer.channelData[1])
        bufferLength == 44 + dataLength * numChannels * 2
        header == WavHeader(numChannels, buffer.sampleRate, dataLength)
    IN [k \in 1..bufferLength |->
          IF k <= 44 THEN header[k]
          ELSE LET n == (k - 45) \div 2
               IN IF n < dataLength * numChannels
                  THEN Int16Bytes(WavLoopSample(buffer, n))[((k - 45) % 2) + 1]
                  ELSE 0]

\* part_002 lines 216-218 (VibeCloner): the value view.setInt16 stores for data[i]
MonoSample(sample) ==
    LET s == Max(-1000, Min(1000, sample))
        val == IF s < 0 THEN s * 32768 ELSE s * 32767
    IN ToInt16(Trunc(val, 1000))

\* part_002 lines 180-223 (VibeCloner): the bytes of the Blob bufferToWavBlob
\* returns; numChannels is the constant 1 and only channel 0 is read
bufferToWavBlob(buffer) ==
    LET numChannels == 1
        data == buffer.channelData[1]
        wavDataLength == Len(data) * 2
        bufferLength == 44 + wavDataLength
        header == WavHeader(numChannels, buffer.sampleRate, Len(data))
    IN [k \in 1..bufferLength |->
          IF k <= 44 THEN header[k]
          ELSE Int16Bytes(MonoSample(data[((k - 45) \div 2) + 1]))[((k - 45) % 2) + 1]]

sampleBlockSize == 1152

\* typedArray.subarray(begin, end) of a sequence (end clamped to the length)
Subarray(a, begin, end) == SubSeq(a, begin + 1, Min(end, Len(a)))

\* lines 592-597.  The codec is lamejs: what a call returns is its choice, here
\* emits[k], the length of the chunk the k-th call returns.  `calls` is the log of
\* the calls made on the encoder, `out` the chunks pushed on mp3Data.
RECURSIVE Mp3Loop(_, _, _, _, _, _, _)
\* mutant: the loop stops when a whole block is no longer left
Mp3Loop_WholeBlocks(channels, leftInt16, rightInt16, i, emits, calls, out) ==
    IF i + sampleBlockSize > Len(leftInt16) THEN [calls |-> calls, out |-> out]
    ELSE
    LET leftChunk == Subarray(leftInt16, i, i + sampleBlockSize)
        hasRight == channels > 1
        rightChunk == IF hasRight THEN Subarray(rightInt16, i, i + sampleBlockSize) ELSE <<>>
        k == Len(calls) + 1
        mp3buf == [call |-> k, length |-> emits[k]]
        call == [op |-> "encodeBuffer", at |-> i, left |-> leftChunk,
                 hasRight |-> hasRight, right |-> rightChunk, returned |-> mp3buf]
    IN Mp3Loop(channels, leftInt16, rightInt16, i + sampleBlockSize, emits,
               Append(calls, call),
               IF mp3buf.length > 0 THEN Append(out, mp3buf) ELSE out)

\* mutant: rightInt16 is handed over for a one-channel buffer too
Mp3Loop_RightAlways(channels, leftInt16, rightInt16, i, emits, calls, out) ==
    IF i >= Len(leftInt16) THEN [calls |-> calls, out |-> out]
    ELSE
    LET leftChunk == Subarray(leftInt16, i, i + sampleBlockSize)
        rightChunk == Subarray(rightInt16, i, i + sampleBlockSize)
        k == Len(calls) + 1
        mp3buf == [call |-> k, length |-> emits[k]]
        call == [op |-> "encodeBuffer", at |-> i, left |-> leftChunk,
                 hasRight |-> TRUE, right |-> rightChunk, returned |-> mp3buf]
    IN Mp3Loop(channels, leftInt16, rightInt16, i + sampleBlockSize, emits,
               Append(calls, call),
               IF mp3buf.length > 0 THEN Append(out, mp3buf) ELSE out)

Mp3Loop(channels, leftInt16, rightInt16, i, emits, calls, out) ==
    IF i >= Len(leftInt16) THEN [calls |-> calls, out |-> out]
    ELSE
    LET leftChunk == Subarray(leftInt16, i, i + sampleBlockSize)
        hasRight == channels > 1
        rightChunk == IF hasRight THEN Subarray(rightInt16, i, i + sampleBlockSize) ELSE <<>>
        k == Len(calls) + 1
        mp3buf == [call |-> k, length |-> emits[k]]
        call == [op |-> "encodeBuffer", at |-> i, left |-> leftChunk,
                 hasRight |-> hasRight, right |-> rightChunk, returned |-> mp3buf]
    IN Mp3Loop(channels, leftInt16, rightInt16, i + sampleBlockSize, emits,
               Append(calls, call),
               IF mp3buf.length > 0 THEN Append(out, mp3buf) ELSE out)

\* how many calls audioBufferToMp3 makes on the encoder for `length` frames
\* (the passes of the loop and the flush); emits is drawn over 1..Mp3CallCount
Mp3CallCount(length) == CeilDiv(length, sampleBlockSize) + 1

audioBufferToMp3(buffer, emits) ==
    LET channels == buffer.numberOfChannels
        kbps == 320
        samplesLeft == buffer.channelData[1]
        samplesRight == IF channels > 1 THEN buffer.channelData[2] ELSE samplesLeft
        length == Len(samplesLeft)
        leftInt16 == [i \in 1..length |-> Mp3Sample(samplesLeft[i])]
        rightInt16 == [i \in 1..length |-> IF channels > 1 THEN Mp3Sample(samplesRight[i]) ELSE 0]
        loop == Mp3Loop(channels, leftInt16, rightInt16, 0, emits, <<>>, <<>>)
        k == Len(loop.calls) + 1
        mp3buf == [call |-> k, length |-> emits[k]]
    IN [encoder |-> [channels |-> channels, sampleRate |-> buffer.sampleRate, kbps |-> kbps],
        calls |-> Append(loop.calls, [op |-> "flush", at |-> length, left |-> <<>>,
                                      hasRight |-> FALSE, right |-> <<>>, returned |-> mp3buf]),
        mp3Data |-> IF mp3buf.length > 0 THEN Append(loop.out, mp3buf) ELSE loop.out,
        type |-> "audio/mp3"]


(***************************************************************************)
(* processAudio as a process: one step per await (part_002 lines 605-758). *)
(* A File is [name, type, size, decodable, audio]: `name` is a sequence of  *)
(* characters, `type` the MIME type <<major, minor>> ("major/minor"),      *)
(* `audio` the AudioBuffer decodeAudioData yields for its bytes when       *)
(* `decodable`.                                                            *)
(***************************************************************************)
NoBuffer == [numberOfChannels |-> 0, sampleRate |-> 0, length |-> 0]
NoContext == [nodes |-> <<>>, edges |-> {}, started |-> {},
              numberOfChannels |-> 0, length |-> 0, sampleRate |-> 0]
NoChain == [ctx |-> NoContext, source |-> 0, chain |-> 0]
NoBlob == [type |-> "", encoder |-> "", size |-> 0, header |-> <<>>, of |-> NoBuffer]
NoFile == [name |-> <<>>, type |-> <<"", "">>, size |-> 0, decodable |-> FALSE, audio |-> NoBuffer]
NoOptions == [intensity |-> "", stereoWidth |-> "", enableWarmth |-> FALSE, enableFades |-> FALSE,
              enableNaturalizer |-> FALSE, exportFormat |-> "", preset |-> "",
              creativeFx |-> [chorus |-> 0, phaser |-> 0, flanger |-> 0]]

PaIdle == [pc |-> "idle", file |-> NoFile, options |-> NoOptions, audioBuffer |-> NoBuffer,
           graph |-> NoChain, renderedBuffer |-> NoBuffer, result |-> NoBlob, error |-> ""]

\* lines 609-610: the call runs up to `await file.arrayBuffer()`
PaCall(f, opts) == [PaIdle EXCEPT !.pc = "arrayBuffer", !.file = f, !.options = opts]

PaReject(p, err) == [p EXCEPT !.pc = "rejected", !.error = err]

\* line 610 settles; line 611 runs up to `await audioContext.decodeAudioData(...)`
PaArrayBuffer(p, ok) ==
    IF ok THEN [p EXCEPT !.pc = "decodeAudioData"] ELSE PaReject(p, "read")

\* line 611 settles; lines 612-751 run up to `await offlineCtx.startRendering()`.
\* new OfflineAudioContext throws NotSupportedError for a length of 0.
PaDecoded(p) ==
    IF ~p.file.decodable THEN PaReject(p, "decode")
    ELSE IF CeilFrames(p.file.audio, TARGET_SAMPLE_RATE) = 0 THEN PaReject(p, "render")
    ELSE [p EXCEPT !.pc = "startRendering",
                   !.audioBuffer = p.file.audio,
                   !.graph = BuildChain(p.file.audio, p.options)]

\* the buffer startRendering resolves with: the context's channels, length and rate
RenderedBuffer(ctx) ==
    [numberOfChannels |-> ctx.numberOfChannels, sampleRate |-> ctx.sampleRate, length |-> ctx.length]

\* The Blob of an encoder run on a rendered buffer, whose samples the model does
\* not compute: its type, its size and, for the PCM container, its header.
WavBlob(buffer) ==
    [type |-> "audio/wav", encoder |-> "audioBufferToWav",
     size |-> 44 + buffer.length * buffer.numberOfChannels * 2,
     header |-> WavHeader(buffer.numberOfChannels, buffer.sampleRate, buffer.length),
     of |-> buffer]

Mp3Blob(buffer) ==
    [type |-> "audio/mp3", encoder |-> "audioBufferToMp3", size |-> 0, header |-> <<>>, of |-> buffer]

\* mutant: the test of the format picks the other encoder
PaRendered_FormatSwapped(p, renderOk, encodeOk) ==
    IF ~renderOk THEN PaReject(p, "render")
    ELSE IF ~encodeOk THEN PaReject([p EXCEPT !.renderedBuffer = RenderedBuffer(p.graph.ctx)], "encode")
    ELSE LET renderedBuffer == RenderedBuffer(p.graph.ctx)
         IN [p EXCEPT !.pc = "resolved",
                      !.renderedBuffer = renderedBuffer,
                      !.result = IF p.options.exportFormat = "mp3"
                                 THEN WavBlob(renderedBuffer)
                                 ELSE Mp3Blob(renderedBuffer)]

\* line 751 settles; lines 753-757 encode and return
PaRendered(p, renderOk, encodeOk) ==
    IF ~renderOk THEN PaReject(p, "render")
    ELSE IF ~encodeOk THEN PaReject([p EXCEPT !.renderedBuffer = RenderedBuffer(p.graph.ctx)], "encode")
    ELSE LET renderedBuffer == RenderedBuffer(p.graph.ctx)
         IN [p EXCEPT !.pc = "resolved",
                      !.renderedBuffer = renderedBuffer,
                      !.result = IF p.options.exportFormat = "wav"
                                 THEN WavBlob(renderedBuffer)
                                 ELSE Mp3Blob(renderedBuffer)]

(***************************************************************************)
(* The engine on its own: one processAudio call for every file and every   *)
(* AudioProcessOptions value of the bounded sets.                          *)
(***************************************************************************)
AudioFile(name, decodable, numberOfChannels, sampleRate, length) ==
    [name |-> name, type |-> <<"audio", "mpeg">>, size |-> 4 * length, decodable |-> decodable,
     audio |-> [numberOfChannels |-> numberOfChannels, sampleRate |-> sampleRate, length |-> length]]

EngineFiles ==
    { AudioFile(<<"s", "i", "n", "e", ".", "w", "a", "v">>, TRUE, 1, 44100, 220500),   \* 5 s, mono
      AudioFile(<<"t", "i", "c", "k">>, TRUE, 2, 48000, 1),                             \* one frame
      AudioFile(<<"a", ".", "b", ".", "m", "p", "3">>, TRUE, 2, 44100, 44101),          \* 1 s + 1 frame
      AudioFile(<<"h", "i", ".", "a", "i", "f">>, TRUE, 1, 96000, 364801),              \* 3.8 s + 1 frame
      AudioFile(<<"l", "o", "n", "g", ".", "m", "p", "3">>, TRUE, 2, 44100, 10584000),  \* 4 min, stereo
      AudioFile(<<"b", "a", "d", ".", "m", "p", "3">>, FALSE, 0, 0, 0) }                \* not audio data

EngineFxLevels == {0, 3}

AllOptions ==
    [intensity : {"low", "medium", "high"},
     stereoWidth : {"normal", "wide"},
     enableWarmth : BOOLEAN,
     enableFades : BOOLEAN,
     enableNaturalizer : BOOLEAN,
     exportFormat : {"mp3", "wav"},
     preset : {"balanced", "pop", "electronic", "rock", "lofi"},
     creativeFx : [chorus : EngineFxLevels, phaser : EngineFxLevels, flanger : EngineFxLevels]]

EncIdle ==
    /\ encBuffer = [numberOfChannels |-> 0, sampleRate |-> 0, length |-> 0, channelData |-> <<>>]
    /\ encWav = <<>>
    /\ encMono = <<>>
    /\ encMp3 = [encoder |-> [channels |-> 0, sampleRate |-> 0, kbps |-> 0],
                 calls |-> <<>>, mp3Data |-> <<>>, type |-> ""]

FxIdle ==
    /\ fxCtx = NoContext
    /\ fxChain = 0
    /\ fxLast = [unit |-> "none", input |-> 0, intensity |-> 0, out |-> 0]
    /\ fxCalls = 0

InitialOptions ==
    [intensity |-> "medium", stereoWidth |-> "normal", enableWarmth |-> TRUE, enableFades |-> TRUE,
     enableNaturalizer |-> TRUE, exportFormat |-> "mp3", preset |-> "balanced",
     creativeFx |-> [chorus |-> 0, phaser |-> 0, flanger |-> 0]]

NoDownload == [name |-> <<>>, blob |-> NoBlob]

\* AudioEnhancer as mounted (part_001 lines 59-76)
UiIdle ==
    /\ file = NoFile
    /\ isProcessing = FALSE
    /\ processedBlob = NoBlob
    /\ options = InitialOptions
    /\ alert = ""
    /\ downloaded = NoDownload
    /\ edits = 0

\* VibeCloner as constructed (part_002 lines 109-113), no handleAnalyze call
NoAnalysis == [of |-> NoBlob]
VaIdle == [pc |-> "idle", file |-> NoFile]

AnIdle ==
    /\ vcFile = NoFile
    /\ isAnalyzing = FALSE
    /\ loadingStage = ""
    /\ analysis = NoAnalysis
    /\ error = ""
    /\ vcAlert = ""
    /\ requests = <<>>
    /\ va = VaIdle

\* nothing looked at outside the engine and the two views
NoEntry == [sign |-> 0, linear |-> 0, tanhOf |-> 0]
SilkIdle == silk = [pc |-> "idle", i |-> 0, entry |-> NoEntry]

\* null, for generatedContent and for clarificationData
NoContent == [lyrics |-> "null", stylePrompt |-> "null", linguisticAnalysis |-> "null"]
NoData == [question |-> "null", options |-> <<>>]

\* index.tsx lines 72-85: the initial values of the hooks ("" for a null error)
AppInitial ==
    [view |-> "generator", step |-> "initial", songIdea |-> <<>>,
     clarificationData |-> NoData, clarificationAnswer |-> <<>>,
     generatedContent |-> NoContent, refinementInput |-> <<>>,
     isLoading |-> FALSE, error |-> "", isSaved |-> FALSE]

\* the App before it is mounted: nothing stored, nothing in flight
AppIdle ==
    /\ app = AppInitial
    /\ vibes = <<>>
    /\ localStorage = [present |-> FALSE, text |-> <<>>]
    /\ aiCalls = {}
    /\ effects = {}
    /\ made = [calls |-> 0, saves |-> 0, clock |-> 0]

OtherIdle == SilkIdle /\ AppIdle

\* no optimizeAudioForAnalysis call yet
OaIdle == [pc |-> "idle", file |-> NoFile, audioBuffer |-> NoBuffer, ctx |-> NoContext,
           renderedBuffer |-> NoBuffer, wavBlob |-> NoBlob, resolved |-> FALSE, error |-> ""]

EngineInit ==
    /\ pa \in {PaCall(f, o) : f \in EngineFiles, o \in AllOptions}
    /\ pb = PaIdle
    /\ OtherIdle
    /\ EncIdle
    /\ FxIdle
    /\ UiIdle
    /\ oa = OaIdle
    /\ AnIdle

ArrayBufferResolved ==
    /\ pa.pc = "arrayBuffer"
    /\ pa' = PaArrayBuffer(pa, TRUE)
    /\ UNCHANGED <<fxVars, otherVars, pb, encVars, uiVars, vcVars>>

ArrayBufferRejected ==
    /\ pa.pc = "arrayBuffer"
    /\ pa' = PaArrayBuffer(pa, FALSE)
    /\ UNCHANGED <<fxVars, otherVars, pb, encVars, uiVars, vcVars>>

DecodeSettled ==
    /\ pa.pc = "decodeAudioData"
    /\ pa' = PaDecoded(pa)
    /\ UNCHANGED <<fxVars, otherVars, pb, encVars, uiVars, vcVars>>

RenderResolved ==
    /\ pa.pc = "startRendering"
    /\ \E encodeOk \in BOOLEAN : pa' = PaRendered(pa, TRUE, encodeOk)
    /\ UNCHANGED <<fxVars, otherVars, pb, encVars, uiVars, vcVars>>

RenderRejected ==
    /\ pa.pc = "startRendering"
    /\ pa' = PaRendered(pa, FALSE, TRUE)
    /\ UNCHANGED <<fxVars, otherVars, pb, encVars, uiVars, vcVars>>

EngineNext ==
    \/ ArrayBufferResolved
    \/ ArrayBufferRejected
    \/ DecodeSettled
    \/ RenderResolved
    \/ RenderRejected

SpecEngine == EngineInit /\ [][EngineNext]_vars


(***************************************************************************)
(* The automation timeline of an AudioParam (the fader's gain, part_002    *)
(* lines 740-744).  An event is kept in the order of its time, after the   *)
(* events already there for the same time.  Times are read in frames of    *)
(* the source's rate r, every rate here being a multiple of 5, so that     *)
(* 0.8 s is 4r/5 frames.  At time t the value is that of the last event    *)
(* not after t, or, when the next event is a linear ramp, the point at t   *)
(* of the line from that value to the ramp's target.  A value is a         *)
(* fraction <<n, d>>.                                                      *)
(***************************************************************************)
TimeInFrames(time, rate) ==
    LET g == GCD(rate, time[2]) IN (time[1] * (rate \div g)) \div (time[2] \div g)

\* event a is scheduled strictly before event b
Before(a, b, rate) ==
    \/ TimeInFrames(a.time, rate) < TimeInFrames(b.time, rate)
    \/ TimeInFrames(a.time, rate) = TimeInFrames(b.time, rate) /\ a.ulps < b.ulps

InsertEvent(timeline, e, rate) ==
    LET NotAfter(x) == ~Before(e, x, rate)
        After(x) == Before(e, x, rate)
    IN SelectSeq(timeline, NotAfter) \o <<e>> \o SelectSeq(timeline, After)

RECURSIVE Timeline(_, _)
Timeline(sched, rate) ==
    IF sched = <<>> THEN <<>>
    ELSE InsertEvent(Timeline(SubSeq(sched, 1, Len(sched) - 1), rate), sched[Len(sched)], rate)

\* the value at frame t
ValueAtTime(timeline, t, rate) ==
    LET NotAfterT(k) == \/ TimeInFrames(timeline[k].time, rate) < t
                        \/ TimeInFrames(timeline[k].time, rate) = t /\ timeline[k].ulps <= 0
        i == Cardinality({k \in 1..Len(timeline) : NotAfterT(k)})
    IN IF i = 0 THEN <<1, 1>>
       ELSE IF i < Len(timeline) /\ timeline[i + 1].op = "linearRampToValueAtTime"
       THEN LET T0 == TimeInFrames(timeline[i].time, rate)
                T1 == TimeInFrames(timeline[i + 1].time, rate)
                V0 == timeline[i].value
                V1 == timeline[i + 1].value
            IN <<V0 * (T1 - T0) + (V1 - V0) * (t - T0), T1 - T0>>
       ELSE <<timeline[i].value, 1>>

(***************************************************************************)
(* processAudio for the fades: one call for every source of a set of       *)
(* durations around the fade-in length (0.8 s), the fade-out length (3 s)  *)
(* and their sum, with and without fades.                                  *)
(***************************************************************************)
FadeRates == {44100, 48000}

FadeLengths(r) ==
    {1, r \div 2, 4 * (r \div 5) - 1, 4 * (r \div 5), 4 * (r \div 5) + 1, 2 * r,
     3 * r - 1, 3 * r, 3 * r + 1, 17 * (r \div 5),
     19 * (r \div 5) - 1, 19 * (r \div 5), 19 * (r \div 5) + 1, 5 * r, 10 * r, 10 * r + 1}

FadeFiles ==
    UNION { { AudioFile(<<"f", "a", "d", "e">>, TRUE, 2, r, n) : n \in FadeLengths(r) } : r \in FadeRates }

FadeOptions ==
    { [InitialOptions EXCEPT !.enableFades = f, !.exportFormat = x] :
        f \in BOOLEAN, x \in {"mp3", "wav"} }

FadesInit ==
    /\ pa \in {PaCall(f, o) : f \in FadeFiles, o \in FadeOptions}
    /\ pb = PaIdle
    /\ OtherIdle
    /\ EncIdle
    /\ FxIdle
    /\ UiIdle
    /\ oa = OaIdle
    /\ AnIdle

SpecFades == FadesInit /\ [][EngineNext]_vars

(***************************************************************************)
(* processAudio for the creative effects: one call for every combination   *)
(* of the three effect levels (off, 0.3, and 1, the top of the sliders),   *)
(* with and without the naturalizer and the warmth stage.                  *)
(***************************************************************************)
GraphFxLevels == {0, 3, 10}

GraphFiles ==
    { AudioFile(<<"a", ".", "m", "p", "3">>, TRUE, 2, 44100, 44101),
      AudioFile(<<"s", "i", "n", "e">>, TRUE, 1, 48000, 240000) }

GraphOptions ==
    { [InitialOptions EXCEPT !.creativeFx = fx, !.enableNaturalizer = n, !.enableWarmth = w] :
        fx \in [chorus : GraphFxLevels, phaser : GraphFxLevels, flanger : GraphFxLevels],
        n \in BOOLEAN, w \in BOOLEAN }

GraphInit ==
    /\ pa \in {PaCall(f, o) : f \in GraphFiles, o \in GraphOptions}
    /\ pb = PaIdle
    /\ OtherIdle
    /\ EncIdle
    /\ FxIdle
    /\ UiIdle
    /\ oa = OaIdle
    /\ AnIdle

SpecGraph == GraphInit /\ [][EngineNext]_vars

(***************************************************************************)
(* App, the generator view and VibeLibrary (index.tsx lines 70-440,        *)
(* part_002 lines 10-29, services/gemini.ts lines 101-182).  A handler is  *)
(* one action, enabled when the element it is bound to is rendered and not *)
(* disabled; the state it sets is the state of the next render.  The       *)
(* useEffect callbacks that render makes due are run by RunEffects, before *)
(* the next event is handled.  A call of the service is in flight from the *)
(* handler's await until the action that settles it, which is the rest of  *)
(* the handler.  A text is a sequence of characters; the text the service  *)
(* returns to call n is written ToString(n).                               *)
(***************************************************************************)
MaxCalls == 2           \* calls of the gemini service made in one run
MaxSaves == 2           \* saves made in one run

Undefined == "undefined"

\* what the user types in an input (an input is blank until then)
Typed == {<<" ", "a", " ">>}

\* the tabs clicked; the cloner tab does to App what the enhancer tab does
Tabs == {"generator", "enhancer", "library"}

\* String.prototype.trim (of spaces)
RECURSIVE TrimStart(_)
TrimStart(s) == IF s # <<>> /\ Head(s) = " " THEN TrimStart(Tail(s)) ELSE s

RECURSIVE TrimEnd(_)
TrimEnd(s) == IF s # <<>> /\ s[Len(s)] = " " THEN TrimEnd(SubSeq(s, 1, Len(s) - 1)) ELSE s

Trim(s) == TrimEnd(TrimStart(s))

\* JSON.stringify of a list of vibes: a property whose value is undefined is left
\* out (of a vibe's properties only linguisticAnalysis can be undefined)
JSONstringify(list) ==
    [k \in 1..Len(list) |->
        [key \in {f \in DOMAIN list[k] :
                     ~(f = "linguisticAnalysis" /\ list[k][f] = Undefined)} |-> list[k][key]]]

\* JSON.parse of such a text: the objects, with the properties the text has
JSONparse(text) == text

\* obj[key]: undefined for a property the object does not have
Get(obj, key) == IF key \in DOMAIN obj THEN obj[key] ELSE Undefined

\* gemini.ts lines 144-146, 176-178: the GeneratedContent parsed from the text
\* returned to call n; contentSchema (lines 59-76) requires the three properties
Content(n) ==
    [lyrics |-> ToString(n), stylePrompt |-> ToString(n), linguisticAnalysis |-> ToString(n)]

\* gemini.ts lines 113-120: the question parsed from the service's text, or the
\* one returned when the call or the parsing failed
Questions ==
    { [question |-> "asked", options |-> << <<"o">> >>],
      [question |-> "What emotional texture should the lyrics explore?",
       options |-> << <<"M">>, <<"G">>, <<"U">> >>] }

\* what an earlier run can have left under 'afriSunoVibes': nothing, or a vibe
StoredBefore ==
    { [present |-> FALSE, text |-> <<>>],
      [present |-> TRUE,
       text |-> JSONstringify(<< [id |-> ToString(0), timestamp |-> 0, idea |-> <<"a">>,
                                  lyrics |-> ToString(0), stylePrompt |-> ToString(0),
                                  linguisticAnalysis |-> Undefined] >>)] }

AppInit ==
    /\ app = AppInitial
    /\ vibes = <<>>
    /\ localStorage \in StoredBefore
    /\ aiCalls = {}
    /\ effects = {"resetSaved"}
    /\ made = [calls |-> 0, saves |-> 0, clock |-> 0]
    /\ SilkIdle
    /\ pa = PaIdle
    /\ pb = PaIdle
    /\ EncIdle
    /\ FxIdle
    /\ UiIdle
    /\ oa = OaIdle
    /\ AnIdle

notApp == <<pa, pb, silk, fxVars, encVars, uiVars, vcVars>>

\* the generator view is on screen and the effects of the last render have run
Generator(step) == app.view = "generator" /\ app.step = step /\ effects = {}

\* line 363
ResultsShown == Generator("results") /\ app.generatedContent # NoContent

\* index.tsx lines 97-99 and part_002 lines 13-22
RunEffects ==
    /\ effects # {}
    /\ effects' = {}
    /\ app' = IF "resetSaved" \in effects THEN [app EXCEPT !.isSaved = FALSE] ELSE app
    /\ vibes' = IF "loadVibes" \in effects /\ localStorage.present
                THEN JSONparse(localStorage.text)
                ELSE vibes
    /\ UNCHANGED <<localStorage, aiCalls, made, notApp>>

\* lines 216, 227, 238, 249: VibeLibrary is mounted in the library view only
ClickTab ==
    /\ effects = {}
    /\ \E v \in Tabs :
          /\ app' = [app EXCEPT !.view = v]
          /\ vibes' = IF v = app.view THEN vibes ELSE <<>>
          /\ effects' = IF v = "library" /\ app.view # "library" THEN {"loadVibes"} ELSE {}
    /\ UNCHANGED <<localStorage, aiCalls, made, notApp>>

\* line 289
TypeSongIdea ==
    /\ Generator("initial")
    /\ \E text \in Typed : app' = [app EXCEPT !.songIdea = text]
    /\ UNCHANGED <<vibes, localStorage, aiCalls, effects, made, notApp>>

\* line 339
TypeClarificationAnswer ==
    /\ Generator("clarifying")
    /\ \E text \in Typed : app' = [app EXCEPT !.clarificationAnswer = text]
    /\ UNCHANGED <<vibes, localStorage, aiCalls, effects, made, notApp>>

\* line 418
TypeRefinement ==
    /\ ResultsShown
    /\ \E text \in Typed : app' = [app EXCEPT !.refinementInput = text]
    /\ UNCHANGED <<vibes, localStorage, aiCalls, effects, made, notApp>>

\* a call of the service is made and awaited
Await(kind) ==
    /\ made.calls < MaxCalls
    /\ made' = [made EXCEPT !.calls = made.calls + 1]
    /\ aiCalls' = aiCalls \cup {[id |-> made.calls + 1, kind |-> kind]}

\* lines 102-107, from the Next Step button (line 294)
HandleInitialSubmit ==
    /\ Generator("initial")
    /\ ~app.isLoading
    /\ Trim(app.songIdea) # <<>>
    /\ app' = [app EXCEPT !.isLoading = TRUE, !.error = ""]
    /\ Await("clarify")
    /\ UNCHANGED <<vibes, localStorage, effects, notApp>>

\* lines 107-114: getClarificationQuestion never rejects (gemini.ts lines 116-121)
ClarificationSettled ==
    \E r \in aiCalls :
        /\ r.kind = "clarify"
        /\ aiCalls' = aiCalls \ {r}
        /\ \E data \in Questions :
              app' = [app EXCEPT !.clarificationData = data, !.step = "clarifying",
                                 !.isLoading = FALSE]
        /\ UNCHANGED <<vibes, localStorage, effects, made, notApp>>

\* lines 117-130; customAnswer is <<>> when the handler is called without one
handleClarificationSubmit(customAnswer) ==
    LET finalAnswer == IF customAnswer # <<>> THEN customAnswer ELSE app.clarificationAnswer
    IN /\ Trim(finalAnswer) # <<>>
       /\ app' = [app EXCEPT !.isLoading = TRUE, !.error = "", !.step = "generating"]
       /\ Await("generate")
       /\ UNCHANGED <<vibes, localStorage, effects, notApp>>

\* line 324
ClickOption ==
    /\ Generator("clarifying")
    /\ \E k \in 1..Len(app.clarificationData.options) :
          handleClarificationSubmit(app.clarificationData.options[k])

\* line 340
EnterClarificationAnswer ==
    /\ Generator("clarifying")
    /\ handleClarificationSubmit(<<>>)

\* line 343
ClickGenerateVibe ==
    /\ Generator("clarifying")
    /\ ~app.isLoading
    /\ Trim(app.clarificationAnswer) # <<>>
    /\ handleClarificationSubmit(<<>>)

\* mutant: a failed generation leaves the step as it is
GenerateRejected_StepKept ==
    [app EXCEPT !.error = "Failed to generate the vibe. Please try again.",
                !.isLoading = FALSE]

\* lines 133-138
GenerateRejected ==
    [app EXCEPT !.error = "Failed to generate the vibe. Please try again.",
                !.step = "clarifying", !.isLoading = FALSE]

\* lines 130-138: generateSong resolves with the parsed content or rejects
GenerateSettled ==
    \E r \in aiCalls :
        /\ r.kind = "generate"
        /\ aiCalls' = aiCalls \ {r}
        /\ \/ /\ app' = [app EXCEPT !.generatedContent = Content(r.id),
                                    !.step = "results", !.isLoading = FALSE]
              /\ effects' = effects \cup {"resetSaved"}
           \/ /\ app' = GenerateRejected
              /\ UNCHANGED effects
        /\ UNCHANGED <<vibes, localStorage, made, notApp>>

\* lines 141-147
handleRefinementSubmit ==
    /\ Trim(app.refinementInput) # <<>>
    /\ app.generatedContent # NoContent
    /\ app' = [app EXCEPT !.isLoading = TRUE, !.error = ""]
    /\ Await("refine")
    /\ UNCHANGED <<vibes, localStorage, effects, notApp>>

\* line 419
EnterRefinement ==
    /\ ResultsShown
    /\ handleRefinementSubmit

\* lines 422-423
ClickRefine ==
    /\ ResultsShown
    /\ ~(app.isLoading \/ Trim(app.refinementInput) = <<>>)
    /\ handleRefinementSubmit

\* lines 147-154: refineSong resolves with the parsed content or rejects
RefineSettled ==
    \E r \in aiCalls :
        /\ r.kind = "refine"
        /\ aiCalls' = aiCalls \ {r}
        /\ \/ /\ app' = [app EXCEPT !.generatedContent = Content(r.id),
                                    !.refinementInput = <<>>, !.isLoading = FALSE]
              /\ effects' = effects \cup {"resetSaved"}
           \/ /\ app' = [app EXCEPT !.error = "Failed to refine the vibe. Please try again.",
                                    !.isLoading = FALSE]
              /\ UNCHANGED effects
        /\ UNCHANGED <<vibes, localStorage, made, notApp>>

\* mutant: the new vibe is put after the stored ones
Prepend_AtEnd(newVibe, existingVibes) == existingVibes \o <<newVibe>>

\* line 173
Prepend(newVibe, existingVibes) == <<newVibe>> \o existingVibes

\* lines 157-181, from the Save button (lines 392-393); crypto.randomUUID gives an
\* id no stored vibe has, Date.now a time not before the last one; setItem can
\* throw (the quota)
HandleSaveVibe ==
    /\ ResultsShown
    /\ ~app.isSaved
    /\ made.saves < MaxSaves
    /\ \E tick \in {0, 1}, stored \in BOOLEAN :
          LET existingVibes == IF localStorage.present THEN JSONparse(localStorage.text)
                               ELSE <<>>
              newVibe == [id |-> ToString(made.saves + 1),
                          timestamp |-> made.clock + tick,
                          idea |-> app.songIdea,
                          lyrics |-> app.generatedContent.lyrics,
                          stylePrompt |-> app.generatedContent.stylePrompt,
                          linguisticAnalysis |-> app.generatedContent.linguisticAnalysis]
              updatedVibes == Prepend(newVibe, existingVibes)
          IN /\ made' = [made EXCEPT !.saves = made.saves + 1, !.clock = made.clock + tick]
             /\ IF stored
                THEN /\ localStorage' = [present |-> TRUE, text |-> JSONstringify(updatedVibes)]
                     /\ app' = [app EXCEPT !.isSaved = TRUE]
                ELSE /\ app' = [app EXCEPT !.error = "Failed to save to local storage."]
                     /\ UNCHANGED localStorage
    /\ UNCHANGED <<vibes, aiCalls, effects, notApp>>

\* line 401
ClickStartFresh ==
    /\ ResultsShown
    /\ app' = [app EXCEPT !.step = "initial", !.generatedContent = NoContent,
                          !.songIdea = <<>>, !.clarificationAnswer = <<>>]
    /\ effects' = {"resetSaved"}
    /\ UNCHANGED <<vibes, localStorage, aiCalls, made, notApp>>

\* lines 183-193, from a card of the library (part_002 line 65); the view changes
\* and VibeLibrary is unmounted
HandleLoadVibe ==
    /\ app.view = "library"
    /\ effects = {}
    /\ \E k \in 1..Len(vibes) :
          LET vibe == vibes[k]
          IN app' = [app EXCEPT !.songIdea = vibe.idea,
                                !.generatedContent =
                                    [lyrics |-> vibe.lyrics,
                                     stylePrompt |-> vibe.stylePrompt,
                                     linguisticAnalysis |-> Get(vibe, "linguisticAnalysis")],
                                !.step = "results", !.view = "generator", !.isSaved = TRUE]
    /\ vibes' = <<>>
    /\ effects' = {"resetSaved"}
    /\ UNCHANGED <<localStorage, aiCalls, made, notApp>>

\* vibes.filter(v => v.id !== id)
Filter(list, id) == SelectSeq(list, LAMBDA v : v.id # id)

\* part_002 lines 24-29, from the bin of a card (line 72)
HandleDelete ==
    /\ app.view = "library"
    /\ effects = {}
    /\ \E k \in 1..Len(vibes) :
          LET updated == Filter(vibes, vibes[k].id)
          IN /\ vibes' = updated
             /\ localStorage' = [present |-> TRUE, text |-> JSONstringify(updated)]
    /\ UNCHANGED <<app, aiCalls, effects, made, notApp>>

AppNext ==
    \/ RunEffects
    \/ ClickTab
    \/ TypeSongIdea
    \/ TypeClarificationAnswer
    \/ TypeRefinement
    \/ HandleInitialSubmit
    \/ ClarificationSettled
    \/ ClickOption
    \/ EnterClarificationAnswer
    \/ ClickGenerateVibe
    \/ GenerateSettled
    \/ EnterRefinement
    \/ ClickRefine
    \/ RefineSettled
    \/ HandleSaveVibe
    \/ ClickStartFresh
    \/ HandleLoadVibe
    \/ HandleDelete

SpecApp == AppInit /\ [][AppNext]_vars

\* call n of the service settles and the handler awaiting it goes on
Settles(n) ==
    /\ ClarificationSettled \/ GenerateSettled \/ RefineSettled
    /\ \E r \in aiCalls : r.id = n /\ r \notin aiCalls'

\* the promise of every call made is settled in the end: the service answers or
\* the request fails, and the continuation of the handler is then run
SpecAppFair == SpecApp /\ \A n \in 1..MaxCalls : WF_vars(Settles(n))

(***************************************************************************)
(* makeSilkCurve (part_002 lines 392-406).  The input of entry i is        *)
(* x = (i * 2) / n_samples - 1 = (2i - n_samples) / n_samples.  An entry   *)
(* is [sign, linear, tanhOf], standing for the number                      *)
(*     sign * (linear / n_samples + Math.tanh(tanhOf / n_samples) * 0.25); *)
(* tanh is not computed: tanh(0) = 0 and 0 <= tanh(t) <= t for t >= 0 are  *)
(* all that is used of it.  The arithmetic is exact; the rounding of the   *)
(* doubles and of the Float32Array is not modelled.                        *)
(***************************************************************************)
n_samples == 48000

Abs(v) == IF v < 0 THEN -v ELSE v

\* the numerator of x over n_samples
SilkInput(i) == 2 * i - n_samples

\* mutant: the sign of x is not restored on the shaped part
SilkEntry_Unsigned(i) ==
    LET x == SilkInput(i)
    IN IF 10 * Abs(x) < 7 * n_samples
       THEN [sign |-> IF x < 0 THEN -1 ELSE IF x > 0 THEN 1 ELSE 0, linear |-> Abs(x), tanhOf |-> 0]
       ELSE [sign |-> 1, linear |-> (7 * n_samples) \div 10,
             tanhOf |-> Abs(x) - (7 * n_samples) \div 10]

\* lines 396-403: curve[i]
SilkEntry(i) ==
    LET x == SilkInput(i)
    IN IF 10 * Abs(x) < 7 * n_samples
       THEN [sign |-> IF x < 0 THEN -1 ELSE IF x > 0 THEN 1 ELSE 0, linear |-> Abs(x), tanhOf |-> 0]
       ELSE LET sign == IF x < 0 THEN -1 ELSE 1
                xabs == Abs(x)
            IN [sign |-> sign, linear |-> (7 * n_samples) \div 10,
                tanhOf |-> xabs - (7 * n_samples) \div 10]

\* one pass of the loop is looked at: any index of the table
SilkInit ==
    /\ silk \in {[pc |-> "loop", i |-> i, entry |-> NoEntry] : i \in 0..(n_samples - 1)}
    /\ AppIdle
    /\ pa = PaIdle
    /\ pb = PaIdle
    /\ EncIdle
    /\ FxIdle
    /\ UiIdle
    /\ oa = OaIdle
    /\ AnIdle

SilkWrite ==
    /\ silk.pc = "loop"
    /\ silk' = [silk EXCEPT !.pc = "written", !.entry = SilkEntry(silk.i)]
    /\ UNCHANGED <<pa, pb, fxVars, encVars, uiVars, vcVars, appVars>>

SpecSilk == SilkInit /\ [][SilkWrite]_vars

(***************************************************************************)
(* The effect units called directly, with any intensity (the helpers take  *)
(* a number: zero and negative values included), one after the other on    *)
(* the same context, each on the node the previous call returned.          *)
(***************************************************************************)
FxIntensities == {-1, 0, 2, 3, 10}

FxInit ==
    /\ fxCtx = Create(OfflineAudioContext(2, 1, 48000), Node("input", "caller", "gain", "", {<<"gain", 10000>>}))
    /\ fxChain = 2
    /\ fxLast = [unit |-> "none", input |-> 0, intensity |-> 0, out |-> 0]
    /\ fxCalls = 0
    /\ EncIdle
    /\ pa = PaIdle
    /\ pb = PaIdle
    /\ OtherIdle
    /\ UiIdle
    /\ oa = OaIdle
    /\ AnIdle

FxCall(unit, r, intensity) ==
    /\ fxCalls < MaxFxCalls
    /\ fxCtx' = r.ctx
    /\ fxChain' = r.out
    /\ fxLast' = [unit |-> unit, input |-> fxChain, intensity |-> intensity, out |-> r.out]
    /\ fxCalls' = fxCalls + 1
    /\ UNCHANGED <<encVars, pa, pb, uiVars, vcVars, otherVars>>

CallChorus == \E i \in FxIntensities : FxCall("createChorus", createChorus(fxCtx, fxChain, i), i)
CallPhaser == \E i \in FxIntensities : FxCall("createPhaser", createPhaser(fxCtx, fxChain, i), i)
CallFlanger == \E i \in FxIntensities : FxCall("createFlanger", createFlanger(fxCtx, fxChain, i), i)

FxNext == CallChorus \/ CallPhaser \/ CallFlanger

SpecFx == FxInit /\ [][FxNext]_vars

(***************************************************************************)
(* The encoders on their own: one buffer, handed to audioBufferToWav and   *)
(* to audioBufferToMp3.  The buffers are every buffer of 1 or 2 channels   *)
(* and up to MaxFrames frames over a few sample values, every one-frame    *)
(* mono buffer with a sample of -MaxSampleMilli..MaxSampleMilli, and       *)
(* buffers of around one and two codec blocks, silent or a ramp.           *)
(***************************************************************************)
SmallSamples == {-1000, -500, 0, 1000}

Buffer(sampleRate, channelData) ==
    [numberOfChannels |-> Len(channelData), sampleRate |-> sampleRate,
     length |-> Len(channelData[1]), channelData |-> channelData]

SmallBuffers ==
    UNION { { Buffer(r, d) : d \in [1..c -> [1..f -> SmallSamples]] } :
            r \in {16000, 48000}, c \in {1, 2}, f \in 1..MaxFrames }

OneSampleBuffers ==
    { Buffer(48000, << <<x>> >>) : x \in (-MaxSampleMilli)..MaxSampleMilli }

Ramp(i, c) == ((i * 37 + c * 500) % 2401) - 1200

LongBuffers ==
    { Buffer(48000, [c \in 1..n |-> [i \in 1..f |-> IF silent THEN 0 ELSE Ramp(i, c)]]) :
        n \in {1, 2},
        f \in {sampleBlockSize - 1, sampleBlockSize, sampleBlockSize + 1,
               2 * sampleBlockSize, 2 * sampleBlockSize + 1},
        silent \in BOOLEAN }

EncInit ==
    /\ encBuffer \in SmallBuffers \cup OneSampleBuffers \cup LongBuffers
    /\ encWav = <<>>
    /\ encMono = <<>>
    /\ encMp3 = [encoder |-> [channels |-> 0, sampleRate |-> 0, kbps |-> 0],
                 calls |-> <<>>, mp3Data |-> <<>>, type |-> ""]
    /\ FxIdle
    /\ pa = PaIdle
    /\ pb = PaIdle
    /\ OtherIdle
    /\ UiIdle
    /\ oa = OaIdle
    /\ AnIdle

EncodeWav ==
    /\ encWav = <<>>
    /\ encWav' = audioBufferToWav(encBuffer)
    /\ UNCHANGED <<encBuffer, encMp3, encMono, fxVars, otherVars, pb, pa, uiVars, vcVars>>

\* the codec returns an empty or a non-empty chunk from each call
EncodeMp3 ==
    /\ encMp3.type = ""
    /\ \E emits \in [1..Mp3CallCount(encBuffer.length) -> {0, 418}] :
          encMp3' = audioBufferToMp3(encBuffer, emits)
    /\ UNCHANGED <<encBuffer, encWav, encMono, fxVars, otherVars, pb, pa, uiVars, vcVars>>

\* VibeCloner's encoder is handed the one-channel buffer its render produced
EncodeMono ==
    /\ encMono = <<>>
    /\ encBuffer.numberOfChannels = 1
    /\ encMono' = bufferToWavBlob(encBuffer)
    /\ UNCHANGED <<encBuffer, encWav, encMp3, fxVars, otherVars, pb, pa, uiVars, vcVars>>

EncNext == EncodeWav \/ EncodeMp3 \/ EncodeMono

SpecEnc == EncInit /\ [][EncNext]_vars

(***************************************************************************)
(* AudioEnhancer (part_001 lines 58-353).  A handler is enabled when the   *)
(* element it is bound to is rendered and not disabled: the file input     *)
(* while no file is selected (line 196), Clear while one is (line 221),    *)
(* the options panel and Run Audio Engine while there is a file and no     *)
(* processedBlob (line 226), Run Audio Engine only while not isProcessing  *)
(* (line 322, Button.tsx line 30), Download and Enhance Another while      *)
(* there is a processedBlob (line 333).  The label cycled by the interval  *)
(* of lines 88-99 (processingStep) is not part of the model.               *)
(***************************************************************************)
UiFiles ==
    { [AudioFile(<<"s", "o", "n", "g", ".", "w", "a", "v">>, TRUE, 1, 44100, 220500)
          EXCEPT !.type = <<"audio", "wav">>],
      AudioFile(<<"m", "y", ".", "m", "i", "x", ".", "m", "p", "3">>, TRUE, 2, 48000, 48001),
      AudioFile(<<"b", "a", "d">>, FALSE, 0, 0, 0),
      [AudioFile(<<"n", "o", "t", "e", "s", ".", "t", "x", "t">>, FALSE, 0, 0, 0)
          EXCEPT !.type = <<"text", "plain">>] }

UiFxLevels == {0, 5}

\* name.replace(/\.[^/.]+$/, ""): the last dot and what follows it are removed when
\* at least one character follows and none of them is a slash
StripExtension(name) ==
    LET dots == {k \in 1..Len(name) : name[k] = "."}
    IN IF dots = {} THEN name
       ELSE LET last == CHOOSE k \in dots : \A j \in dots : j <= k
            IN IF last < Len(name) /\ \A j \in (last + 1)..Len(name) : name[j] # "/"
               THEN SubSeq(name, 1, last - 1)
               ELSE name

\* lines 140-172
applyPreset(opts, preset) ==
    LET resetCreative == [chorus |-> 0, phaser |-> 0, flanger |-> 0]
        newOptions == [opts EXCEPT !.preset = preset]
    IN IF preset = "pop"
       THEN [newOptions EXCEPT !.intensity = "high", !.stereoWidth = "wide",
                               !.enableWarmth = TRUE, !.creativeFx = resetCreative]
       ELSE IF preset = "electronic"
       THEN [newOptions EXCEPT !.intensity = "high", !.stereoWidth = "wide",
                               !.enableWarmth = TRUE,
                               !.creativeFx = [resetCreative EXCEPT !.chorus = 2]]
       ELSE IF preset = "rock"
       THEN [newOptions EXCEPT !.intensity = "medium", !.stereoWidth = "normal",
                               !.enableWarmth = TRUE, !.creativeFx = resetCreative]
       ELSE IF preset = "lofi"
       THEN [newOptions EXCEPT !.intensity = "low", !.stereoWidth = "normal",
                               !.enableWarmth = TRUE,
                               !.creativeFx = [resetCreative EXCEPT !.flanger = 3]]
       ELSE [newOptions EXCEPT !.intensity = "medium", !.stereoWidth = "normal",
                               !.enableWarmth = TRUE, !.creativeFx = resetCreative]

\* lines 174-182
updateCreativeFx(opts, type, val) == [opts EXCEPT !.creativeFx[type] = val]

EnhancerInit ==
    /\ UiIdle
    /\ pa = PaIdle
    /\ pb = PaIdle
    /\ OtherIdle
    /\ oa = OaIdle
    /\ AnIdle
    /\ EncIdle
    /\ FxIdle

PanelShown == file # NoFile /\ processedBlob = NoBlob
ResultShown == file # NoFile /\ processedBlob # NoBlob

\* lines 101-111
HandleFileChange ==
    /\ file = NoFile
    /\ \E selectedFile \in UiFiles :
          IF selectedFile.type[1] # "audio"
          THEN /\ alert' = "Please upload a valid audio file."
               /\ UNCHANGED <<file, processedBlob>>
          ELSE /\ file' = selectedFile
               /\ processedBlob' = NoBlob
               /\ UNCHANGED alert
    /\ UNCHANGED <<isProcessing, options, downloaded, edits, pa, fxVars, otherVars, pb, encVars, vcVars>>

\* line 221
ClickClear ==
    /\ file # NoFile
    /\ file' = NoFile
    /\ processedBlob' = NoBlob
    /\ UNCHANGED <<isProcessing, options, alert, downloaded, edits, pa, fxVars, otherVars, pb, encVars, vcVars>>

EditOptions(newOptions) ==
    /\ PanelShown
    /\ edits < MaxEdits
    /\ options' = newOptions
    /\ edits' = edits + 1
    /\ UNCHANGED <<file, isProcessing, processedBlob, alert, downloaded, pa, fxVars, otherVars, pb, encVars, vcVars>>

\* line 235
ClickPreset ==
    \E p \in {"balanced", "pop", "electronic", "rock", "lofi"} : EditOptions(applyPreset(options, p))

\* lines 259, 270, 281
MoveSlider ==
    \E type \in {"chorus", "phaser", "flanger"}, val \in UiFxLevels :
        EditOptions(updateCreativeFx(options, type, val))

\* line 296
ToggleNaturalizer ==
    EditOptions([options EXCEPT !.enableNaturalizer = ~options.enableNaturalizer])

\* line 310
ClickFormat ==
    \E f \in {"mp3", "wav"} : EditOptions([options EXCEPT !.exportFormat = f])

\* lines 113-117: handleProcess up to `await processAudio(file, options)`
HandleProcess ==
    /\ PanelShown
    /\ ~isProcessing
    /\ file # NoFile
    /\ isProcessing' = TRUE
    /\ pa' = PaCall(file, options)
    /\ UNCHANGED <<file, processedBlob, options, alert, downloaded, edits, fxVars, otherVars, pb, encVars, vcVars>>

\* mutant: no finally block, isProcessing is reset on success only
ProcessSettled_NoFinally(p) ==
    IF p.pc = "resolved"
    THEN [processedBlob |-> p.result, alert |-> alert, isProcessing |-> FALSE]
    ELSE [processedBlob |-> processedBlob,
          alert |-> "Failed to process audio. Format might be incompatible.",
          isProcessing |-> isProcessing]

\* lines 117-124: what handleProcess does once processAudio has settled as p
ProcessSettled(p) ==
    IF p.pc = "resolved"
    THEN [processedBlob |-> p.result, alert |-> alert, isProcessing |-> FALSE]
    ELSE [processedBlob |-> processedBlob,
          alert |-> "Failed to process audio. Format might be incompatible.",
          isProcessing |-> FALSE]

\* a step of the processAudio call in flight; when it settles the call, the rest
\* of handleProcess runs
Advance(p) ==
    /\ pa' = p
    /\ IF p.pc \in {"resolved", "rejected"}
       THEN LET after == ProcessSettled(p)
            IN /\ processedBlob' = after.processedBlob
               /\ alert' = after.alert
               /\ isProcessing' = after.isProcessing
       ELSE UNCHANGED <<processedBlob, alert, isProcessing>>
    /\ UNCHANGED <<file, options, downloaded, edits, fxVars, otherVars, pb, encVars, vcVars>>

UiArrayBufferResolved == pa.pc = "arrayBuffer" /\ Advance(PaArrayBuffer(pa, TRUE))
UiArrayBufferRejected == pa.pc = "arrayBuffer" /\ Advance(PaArrayBuffer(pa, FALSE))
UiDecodeSettled == pa.pc = "decodeAudioData" /\ Advance(PaDecoded(pa))
UiRenderResolved == pa.pc = "startRendering" /\ \E encodeOk \in BOOLEAN : Advance(PaRendered(pa, TRUE, encodeOk))
UiRenderRejected == pa.pc = "startRendering" /\ Advance(PaRendered(pa, FALSE, TRUE))

\* lines 127-138
HandleDownload ==
    /\ ResultShown
    /\ processedBlob # NoBlob
    /\ downloaded' = [name |-> <<"AfriSuno_Enhanced_">> \o StripExtension(file.name)
                                  \o <<".", options.exportFormat>>,
                      blob |-> processedBlob]
    /\ UNCHANGED <<file, isProcessing, processedBlob, options, alert, edits, pa, fxVars, otherVars, pb, encVars, vcVars>>

\* line 345
ClickEnhanceAnother ==
    /\ ResultShown
    /\ processedBlob' = NoBlob
    /\ UNCHANGED <<file, isProcessing, options, alert, downloaded, edits, pa, fxVars, otherVars, pb, encVars, vcVars>>

EnhancerNext ==
    \/ HandleFileChange
    \/ ClickClear
    \/ ClickPreset
    \/ MoveSlider
    \/ ToggleNaturalizer
    \/ ClickFormat
    \/ HandleProcess
    \/ UiArrayBufferResolved
    \/ UiArrayBufferRejected
    \/ UiDecodeSettled
    \/ UiRenderResolved
    \/ UiRenderRejected
    \/ HandleDownload
    \/ ClickEnhanceAnother

SpecEnhancer == EnhancerInit /\ [][EnhancerNext]_vars

(***************************************************************************)
(* optimizeAudioForAnalysis of VibeCloner as a process, one step per       *)
(* await (part_002 lines 141-177).                                         *)
(***************************************************************************)
MAX_DURATION == 180
TARGET_SAMPLE_RATE_16k == 16000

\* mutant: the duration is not cut at MAX_DURATION
AnalysisFrames_NoTrim(audioBuffer) ==
    LET g == GCD(TARGET_SAMPLE_RATE_16k, audioBuffer.sampleRate)
    IN FloorDiv(audioBuffer.length * (TARGET_SAMPLE_RATE_16k \div g), audioBuffer.sampleRate \div g)

\* lines 149-150: Math.floor(Math.min(audioBuffer.duration, MAX_DURATION) * 16000)
AnalysisFrames(audioBuffer) ==
    IF audioBuffer.length > MAX_DURATION * audioBuffer.sampleRate
    THEN MAX_DURATION * TARGET_SAMPLE_RATE_16k
    ELSE LET g == GCD(TARGET_SAMPLE_RATE_16k, audioBuffer.sampleRate)
         IN FloorDiv(audioBuffer.length * (TARGET_SAMPLE_RATE_16k \div g), audioBuffer.sampleRate \div g)

\* lines 142-143
OaCall(f) == [OaIdle EXCEPT !.pc = "arrayBuffer", !.file = f]

OaReject(o, err) == [o EXCEPT !.pc = "rejected", !.error = err]

\* line 143 settles
OaArrayBuffer(o, ok) == IF ok THEN [o EXCEPT !.pc = "decodeAudioData"] ELSE OaReject(o, "read")

\* line 144 settles; lines 147-159 run up to `await offlineCtx.startRendering()`.
\* new OfflineAudioContext throws NotSupportedError for a length of 0.
OaDecoded(o) ==
    IF ~o.file.decodable THEN OaReject(o, "decode")
    ELSE LET audioBuffer == o.file.audio
             lengthInFrames == AnalysisFrames(audioBuffer)
         IN IF lengthInFrames = 0 THEN OaReject([o EXCEPT !.audioBuffer = audioBuffer], "context")
            ELSE LET c0 == OfflineAudioContext(1, lengthInFrames, TARGET_SAMPLE_RATE_16k)
                     c1 == Create(c0, Node("source", "optimizeAudioForAnalysis", "bufferSource", "",
                                  {<<"buffer.numberOfChannels", audioBuffer.numberOfChannels>>,
                                   <<"buffer.sampleRate", audioBuffer.sampleRate>>,
                                   <<"buffer.length", audioBuffer.length>>}))
                     source == Last(c1)
                     c2 == Start(Connect(c1, source, Destination, 0, 0), source)
                 IN [o EXCEPT !.pc = "startRendering", !.audioBuffer = audioBuffer, !.ctx = c2]

\* lines 180-223 on a rendered buffer, whose samples the model does not compute:
\* the Blob's type, size and header (numChannels is the constant 1)
MonoWavBlob(buffer) ==
    [type |-> "audio/wav", encoder |-> "bufferToWavBlob",
     size |-> 44 + buffer.length * 2,
     header |-> WavHeader(1, buffer.sampleRate, buffer.length),
     of |-> buffer]

\* line 159 settles; lines 162-167 run up to the FileReader's load
OaRendered(o, ok) ==
    IF ~ok THEN OaReject(o, "render")
    ELSE LET renderedBuffer == RenderedBuffer(o.ctx)
         IN [o EXCEPT !.pc = "readAsDataURL", !.renderedBuffer = renderedBuffer,
                      !.wavBlob = MonoWavBlob(renderedBuffer)]

\* lines 168-175: reader.onload / reader.onerror
OaRead(o, ok) ==
    IF ok THEN [o EXCEPT !.pc = "resolved", !.resolved = TRUE] ELSE OaReject(o, "encode")

(***************************************************************************)
(* The pre-processor on its own: one call for every file of a bounded set  *)
(* of decoded shapes.                                                      *)
(***************************************************************************)
AnalysisRates == {8000, 16000, 22050, 44100, 48000, 96000}

\* frames of the decoded buffer at rate r: a few frames, around one output frame,
\* one second, 180 s less a frame, 180 s, 180 s and a frame, four minutes
AnalysisLengths(r) ==
    {1, 2, 3, 6, 7, r, r + 1, MAX_DURATION * r - 1, MAX_DURATION * r, MAX_DURATION * r + 1, 240 * r}

AnalysisFiles ==
    UNION { { AudioFile(<<"r", "e", "f">>, TRUE, c, r, n) : c \in {1, 2}, n \in AnalysisLengths(r) }
            : r \in AnalysisRates }
    \cup { AudioFile(<<"b", "a", "d">>, FALSE, 0, 0, 0) }

AnalysisInit ==
    /\ oa \in {OaCall(f) : f \in AnalysisFiles}
    /\ AnIdle
    /\ pa = PaIdle
    /\ pb = PaIdle
    /\ OtherIdle
    /\ UiIdle
    /\ EncIdle
    /\ FxIdle

OaStep(o) == oa' = o /\ UNCHANGED <<pa, uiVars, encVars, fxVars, otherVars, pb, anVars>>

OaArrayBufferResolved == oa.pc = "arrayBuffer" /\ OaStep(OaArrayBuffer(oa, TRUE))
OaArrayBufferRejected == oa.pc = "arrayBuffer" /\ OaStep(OaArrayBuffer(oa, FALSE))
OaDecodeSettled == oa.pc = "decodeAudioData" /\ OaStep(OaDecoded(oa))
OaRenderResolved == oa.pc = "startRendering" /\ OaStep(OaRendered(oa, TRUE))
OaRenderRejected == oa.pc = "startRendering" /\ OaStep(OaRendered(oa, FALSE))
OaReaderLoaded == oa.pc = "readAsDataURL" /\ OaStep(OaRead(oa, TRUE))
OaReaderFailed == oa.pc = "readAsDataURL" /\ OaStep(OaRead(oa, FALSE))

AnalysisNext ==
    \/ OaArrayBufferResolved
    \/ OaArrayBufferRejected
    \/ OaDecodeSettled
    \/ OaRenderResolved
    \/ OaRenderRejected
    \/ OaReaderLoaded
    \/ OaReaderFailed

SpecAnalysis == AnalysisInit /\ [][AnalysisNext]_vars

(***************************************************************************)
(* Calls made side by side.  processAudio and optimizeAudioForAnalysis are *)
(* exported async functions: the host may call one while an earlier call   *)
(* is suspended at an await.  pa and pb are two processAudio calls and oa  *)
(* an optimizeAudioForAnalysis call; each record holds the locals of its   *)
(* call (audioContext, audioBuffer, offlineCtx and its nodes,              *)
(* renderedBuffer), which the function creates anew on every call          *)
(* (part_002 lines 609-622 and 142-152).  A step of a call is the code     *)
(* between two awaits; the steps of the three calls interleave freely,     *)
(* the first processAudio call and the pre-analysis call are under way     *)
(* from the start, and the second processAudio call is made at any time    *)
(* and again whenever it has settled.                                      *)
(***************************************************************************)
PairFiles ==
    { AudioFile(<<"a", ".", "m", "p", "3">>, TRUE, 2, 44100, 44101),       \* 1 s + 1 frame, stereo
      AudioFile(<<"s", "i", "n", "e">>, TRUE, 1, 48000, 240000) }         \* 5 s, mono

PairAnalysisFiles ==
    { AudioFile(<<"a", ".", "m", "p", "3">>, TRUE, 2, 44100, 44101),
      AudioFile(<<"b", "a", "d">>, FALSE, 0, 0, 0) }

\* the options a preset button leaves (part_001 lines 140-172), with either
\* stereo width, and for the default preset with either format
PairOptions ==
    { [applyPreset(InitialOptions, p) EXCEPT !.stereoWidth = w] :
        p \in {"balanced", "lofi"}, w \in {"normal", "wide"} }
    \cup { [InitialOptions EXCEPT !.stereoWidth = w, !.exportFormat = "wav"] : w \in {"normal", "wide"} }

Settled(pc) == pc \in {"idle", "resolved", "rejected"}

PairInit ==
    /\ pa \in {PaCall(f, o) : f \in PairFiles, o \in PairOptions}
    /\ pb = PaIdle
    /\ OtherIdle
    /\ oa \in {OaCall(f) : f \in PairAnalysisFiles}
    /\ AnIdle
    /\ UiIdle
    /\ EncIdle
    /\ FxIdle

\* the locals of call c, and a step of call c that leaves them as p
Calls == {"a", "b"}
Call(c) == IF c = "a" THEN pa ELSE pb

PairStep(c, p) ==
    /\ IF c = "a" THEN pa' = p /\ UNCHANGED pb ELSE pb' = p /\ UNCHANGED pa
    /\ UNCHANGED <<fxVars, otherVars, encVars, uiVars, vcVars>>

PairCallB ==
    /\ Settled(pb.pc)
    /\ \E f \in PairFiles, o \in PairOptions : PairStep("b", PaCall(f, o))

PairArrayBufferResolved ==
    \E c \in Calls : Call(c).pc = "arrayBuffer" /\ PairStep(c, PaArrayBuffer(Call(c), TRUE))

PairArrayBufferRejected ==
    \E c \in Calls : Call(c).pc = "arrayBuffer" /\ PairStep(c, PaArrayBuffer(Call(c), FALSE))

\* mutant: one OfflineAudioContext kept for all calls; the second call adds its
\* nodes to the context the first call made
PairDecodeSettled_SharedContext ==
    \E c \in Calls :
        /\ Call(c).pc = "decodeAudioData"
        /\ LET p == PaDecoded(Call(c))
           IN IF c = "b" /\ p.pc = "startRendering" /\ pa.graph # NoChain
              THEN PairStep(c, [p EXCEPT !.graph.ctx.nodes = pa.graph.ctx.nodes \o @,
                                         !.graph.ctx.length = pa.graph.ctx.length])
              ELSE PairStep(c, p)

PairDecodeSettled ==
    \E c \in Calls : Call(c).pc = "decodeAudioData" /\ PairStep(c, PaDecoded(Call(c)))

\* mutant: the offline context kept in one place for all calls; the second
\* call renders and encodes the context the first call made
PairRenderResolved_SharedBuffer ==
    \E c \in Calls, encodeOk \in BOOLEAN :
        /\ Call(c).pc = "startRendering"
        /\ IF c = "b" /\ pa.graph # NoChain
           THEN PairStep(c, PaRendered([pb EXCEPT !.graph.ctx = pa.graph.ctx], TRUE, encodeOk))
           ELSE PairStep(c, PaRendered(Call(c), TRUE, encodeOk))

PairRenderResolved ==
    \E c \in Calls, encodeOk \in BOOLEAN :
        Call(c).pc = "startRendering" /\ PairStep(c, PaRendered(Call(c), TRUE, encodeOk))

PairRenderRejected ==
    \E c \in Calls : Call(c).pc = "startRendering" /\ PairStep(c, PaRendered(Call(c), FALSE, TRUE))

PairNext ==
    \/ PairCallB
    \/ PairArrayBufferResolved
    \/ PairArrayBufferRejected
    \/ PairDecodeSettled
    \/ PairRenderResolved
    \/ PairRenderRejected
    \/ OaArrayBufferResolved
    \/ OaArrayBufferRejected
    \/ OaDecodeSettled
    \/ OaRenderResolved
    \/ OaRenderRejected
    \/ OaReaderLoaded
    \/ OaReaderFailed

SpecPair == PairInit /\ [][PairNext]_vars

(***************************************************************************)
(* VibeCloner (part_002 lines 108-378).  A handler is enabled when the     *)
(* element it is bound to is rendered and not disabled: the file input     *)
(* while no file is selected (line 261), Remove while there is a file, no  *)
(* analysis and no analysis running (line 281), Analyze while there is a   *)
(* file, no analysis and isAnalyzing is false (lines 286-290), and the     *)
(* button under the results while there is an analysis (line 361).         *)
(***************************************************************************)
MaxAnalyses == 2      \* handleAnalyze calls in one run of the cloner view

MAX_FILE_SIZE == 52428800   \* 50 * 1024 * 1024

SizedFile(name, type, size, decodable, numberOfChannels, sampleRate, length) ==
    [name |-> name, type |-> type, size |-> size, decodable |-> decodable,
     audio |-> [numberOfChannels |-> numberOfChannels, sampleRate |-> sampleRate, length |-> length]]

\* what the file picker can hand to handleFileChange
VcFiles ==
    { SizedFile(<<"r", "e", "f">>, <<"audio", "mpeg">>, 9600000, TRUE, 2, 44100, 10584000),
      SizedFile(<<"m", "a", "x">>, <<"audio", "wav">>, MAX_FILE_SIZE, TRUE, 1, 48000, 96000),
      SizedFile(<<"b", "i", "g">>, <<"audio", "wav">>, MAX_FILE_SIZE + 1, TRUE, 2, 48000, 96000),
      SizedFile(<<"t", "i", "c", "k">>, <<"audio", "wav">>, 46, TRUE, 1, 48000, 1),
      SizedFile(<<"b", "a", "d">>, <<"audio", "ogg">>, 1000, FALSE, 0, 0, 0),
      SizedFile(<<"c", "l", "i", "p">>, <<"video", "mp4">>, 1000, TRUE, 2, 48000, 96000),
      SizedFile(<<"n", "o", "t", "e", "s">>, <<"", "">>, MAX_FILE_SIZE + 1, FALSE, 0, 0, 0) }

\* mutant: the size of the file is not looked at
FileRejection_TypeOnly(selectedFile) ==
    IF selectedFile.type[1] # "audio" THEN "Please upload a valid audio file (MP3/WAV)."
    ELSE ""

\* lines 119-127: the alert handleFileChange returns after ("" when it goes on)
FileRejection(selectedFile) ==
    IF selectedFile.type[1] # "audio" THEN "Please upload a valid audio file (MP3/WAV)."
    ELSE IF selectedFile.size > MAX_FILE_SIZE THEN "File too large. Please use a clip under 50MB."
    ELSE ""

\* lines 116-132
VcHandleFileChange ==
    /\ vcFile = NoFile
    /\ va.pc = "idle"
    /\ \E selectedFile \in VcFiles :
          IF FileRejection(selectedFile) # ""
          THEN /\ vcAlert' = FileRejection(selectedFile)
               /\ UNCHANGED <<vcFile, analysis, error>>
          ELSE /\ vcFile' = selectedFile
               /\ analysis' = NoAnalysis
               /\ error' = ""
               /\ UNCHANGED vcAlert
    /\ UNCHANGED <<isAnalyzing, loadingStage, requests, va, oa, pa, uiVars, encVars, fxVars, otherVars, pb>>

\* line 282
VcClickRemove ==
    /\ vcFile # NoFile /\ analysis = NoAnalysis /\ ~isAnalyzing
    /\ vcFile' = NoFile
    /\ UNCHANGED <<isAnalyzing, loadingStage, analysis, error, vcAlert, requests, va, oa, pa,
                   uiVars, encVars, fxVars, otherVars, pb>>

\* line 361
VcClickAnother ==
    /\ vcFile # NoFile /\ analysis # NoAnalysis
    /\ vcFile' = NoFile
    /\ analysis' = NoAnalysis
    /\ UNCHANGED <<isAnalyzing, loadingStage, error, vcAlert, requests, va, oa, pa,
                   uiVars, encVars, fxVars, otherVars, pb>>

\* lines 226-233: handleAnalyze up to the await of the 50 ms timer
HandleAnalyze ==
    /\ vcFile # NoFile /\ analysis = NoAnalysis /\ ~isAnalyzing
    /\ Len(requests) < MaxAnalyses
    /\ isAnalyzing' = TRUE
    /\ error' = ""
    /\ loadingStage' = "Compressing & Optimizing (16kHz)..."
    /\ va' = [pc |-> "timeout", file |-> vcFile]
    /\ UNCHANGED <<vcFile, analysis, vcAlert, requests, oa, pa, uiVars, encVars, fxVars, otherVars, pb>>

\* line 235: the timer fired, optimizeAudioForAnalysis(file) runs to its first await
VcTimeoutFired ==
    /\ va.pc = "timeout"
    /\ va' = [va EXCEPT !.pc = "optimize"]
    /\ oa' = OaCall(va.file)
    /\ UNCHANGED <<vcFile, isAnalyzing, loadingStage, analysis, error, vcAlert, requests, pa,
                   uiVars, encVars, fxVars, otherVars, pb>>

\* e.message of what optimizeAudioForAnalysis rejects with: a DOMException from
\* arrayBuffer, decodeAudioData, the OfflineAudioContext constructor or
\* startRendering, whose message the browser words ("" when it gives none), or the
\* ProgressEvent of reader.onerror, which has no message
OptimizeMessages(kind) ==
    IF kind = "read" THEN {"NotReadableError", ""}
    ELSE IF kind = "decode" THEN {"EncodingError: Unable to decode audio data", ""}
    ELSE IF kind = "context" THEN {"NotSupportedError: The number of frames provided (0) is outside the range", ""}
    ELSE IF kind = "render" THEN {"InvalidStateError", ""}
    ELSE {""}

\* gemini.ts lines 230-239: every failure of analyzeReferenceAudio is rethrown as
\* one of three Errors
AnalysisMessages ==
    {"Audio file format not supported or file too large/corrupt.",
     "System is busy (Rate Limit). Please wait a moment.",
     "Failed to analyze audio. Please try a shorter clip."}

\* line 242: e.message || "Failed to analyze audio. The model might be busy."
CatchMessage(message) ==
    IF message # "" THEN message ELSE "Failed to analyze audio. The model might be busy."

\* lines 240-246: catch and finally
AnalyzeFailed(message) ==
    /\ error' = CatchMessage(message)
    /\ isAnalyzing' = FALSE
    /\ loadingStage' = ""
    /\ va' = [va EXCEPT !.pc = "idle"]
    /\ UNCHANGED <<vcFile, analysis, vcAlert>>

\* a step of the optimizeAudioForAnalysis call handleAnalyze awaits at line 235;
\* when the call resolves, lines 237-238 run up to the await of
\* analyzeReferenceAudio; when it rejects, the catch and the finally run
VcAdvance(o) ==
    /\ va.pc = "optimize"
    /\ oa' = o
    /\ IF o.pc = "resolved"
       THEN /\ loadingStage' = "Extracting Sonic DNA & Tone Flow..."
            /\ requests' = Append(requests, [data |-> o.wavBlob, mimeType |-> "audio/wav"])
            /\ va' = [va EXCEPT !.pc = "analyze"]
            /\ UNCHANGED <<vcFile, isAnalyzing, analysis, error, vcAlert>>
       ELSE IF o.pc = "rejected"
       THEN /\ \E message \in OptimizeMessages(o.error) : AnalyzeFailed(message)
            /\ UNCHANGED requests
       ELSE UNCHANGED <<vcFile, isAnalyzing, loadingStage, analysis, error, vcAlert, requests, va>>
    /\ UNCHANGED <<pa, uiVars, encVars, fxVars, otherVars, pb>>

VcArrayBufferResolved == oa.pc = "arrayBuffer" /\ VcAdvance(OaArrayBuffer(oa, TRUE))
VcArrayBufferRejected == oa.pc = "arrayBuffer" /\ VcAdvance(OaArrayBuffer(oa, FALSE))
VcDecodeSettled == oa.pc = "decodeAudioData" /\ VcAdvance(OaDecoded(oa))
VcRenderResolved == oa.pc = "startRendering" /\ VcAdvance(OaRendered(oa, TRUE))
VcRenderRejected == oa.pc = "startRendering" /\ VcAdvance(OaRendered(oa, FALSE))
VcReaderLoaded == oa.pc = "readAsDataURL" /\ VcAdvance(OaRead(oa, TRUE))
VcReaderFailed == oa.pc = "readAsDataURL" /\ VcAdvance(OaRead(oa, FALSE))

\* lines 238-239 and 243-245: analyzeReferenceAudio resolved
VcAnalysisResolved ==
    /\ va.pc = "analyze"
    /\ analysis' = [of |-> requests[Len(requests)].data]
    /\ isAnalyzing' = FALSE
    /\ loadingStage' = ""
    /\ va' = [va EXCEPT !.pc = "idle"]
    /\ UNCHANGED <<vcFile, error, vcAlert, requests, oa, pa, uiVars, encVars, fxVars, otherVars, pb>>

\* lines 240-246: analyzeReferenceAudio rejected
VcAnalysisRejected ==
    /\ va.pc = "analyze"
    /\ \E message \in AnalysisMessages : AnalyzeFailed(message)
    /\ UNCHANGED <<requests, oa, pa, uiVars, encVars, fxVars, otherVars, pb>>

ClonerInit ==
    /\ AnIdle
    /\ oa = OaIdle
    /\ pa = PaIdle
    /\ pb = PaIdle
    /\ OtherIdle
    /\ UiIdle
    /\ EncIdle
    /\ FxIdle

ClonerNext ==
    \/ VcHandleFileChange
    \/ VcClickRemove
    \/ VcClickAnother
    \/ HandleAnalyze
    \/ VcTimeoutFired
    \/ VcArrayBufferResolved
    \/ VcArrayBufferRejected
    \/ VcDecodeSettled
    \/ VcRenderResolved
    \/ VcRenderRejected
    \/ VcReaderLoaded
    \/ VcReaderFailed
    \/ VcAnalysisResolved
    \/ VcAnalysisRejected

SpecCloner == ClonerInit /\ [][ClonerNext]_vars

(***************************************************************************)
(* Reading a built graph.                                                  *)
(***************************************************************************)
Built == pa.graph # NoChain
G == pa.graph.ctx
NodeIds == 1..Len(G.nodes)

\* the value of a parameter of a node
Param(node, name) == CHOOSE v \in {q[2] : q \in {r \in node.p : r[1] = name}} : TRUE
HasParam(node, name) == \E q \in node.p : q[1] = name

\* The position of a node in the fixed stage order: 0 the buffer source, 1 input
\* trim, 2 high-pass, 3 chorus, 4 phaser, 5 flanger, 6..9 the naturalizer's three
\* notches and its shelf, 10 low-shelf, 11 high-shelf, 12 compressor, 13 warmth,
\* 14 makeup, 15 limiter, 16 fader, 17 the destination.
Rank(node) ==
    CASE node.unit = "createChorus" -> 3
      [] node.unit = "createPhaser" -> 4
      [] node.unit = "createFlanger" -> 5
      [] node.name = "source" -> 0
      [] node.name = "inputNode" -> 1
      [] node.name = "hpf" -> 2
      [] node.name = "notch1" -> 6
      [] node.name = "notch2" -> 7
      [] node.name = "notch3" -> 8
      [] node.name = "silkTilt" -> 9
      [] node.name = "lowShelf" -> 10
      [] node.name = "highShelf" -> 11
      [] node.name = "comp" -> 12
      [] node.name = "clipper" -> 13
      [] node.name = "makeup" -> 14
      [] node.name = "limiter" -> 15
      [] node.name = "fader" -> 16
      [] node.name = "destination" -> 17

\* the stage of a node: the four naturalizer filters are one stage
Stage(node) == IF Rank(node) \in 6..9 THEN 6 ELSE Rank(node)
Present(k) == \E n \in NodeIds : Stage(G.nodes[n]) = k

\* the node a stage hands to the next one
IsStageOutput(node) ==
    CASE node.unit = "createChorus" -> node.name = "wetGain"
      [] node.unit = "createPhaser" -> node.name = "mix"
      [] node.unit = "createFlanger" -> node.name = "wet"
      [] Rank(node) \in 6..9 -> node.name = "silkTilt"
      [] OTHER -> TRUE

\* what each stage of the order is: its node type, filter type and frequency
StageShape(node) ==
    CASE Rank(node) = 1 -> node.type = "gain" /\ HasParam(node, "gainDb")
      [] Rank(node) = 2 -> node.kind = "highpass" /\ Param(node, "frequency") = 850000
      [] Rank(node) = 6 -> node.kind = "peaking" /\ Param(node, "frequency") = 28000000
      [] Rank(node) = 7 -> node.kind = "peaking" /\ Param(node, "frequency") = 45000000
      [] Rank(node) = 8 -> node.kind = "peaking" /\ Param(node, "frequency") = 62000000
      [] Rank(node) = 9 -> node.kind = "highshelf" /\ Param(node, "frequency") = 85000000
      [] Rank(node) = 10 -> node.kind = "lowshelf" /\ Param(node, "frequency") = 1800000
      [] Rank(node) = 11 -> node.kind = "highshelf" /\ Param(node, "frequency") = 110000000
      [] Rank(node) = 12 -> node.type = "compressor"
      [] Rank(node) = 13 -> node.type = "waveshaper"
      [] Rank(node) = 14 -> node.type = "gain" /\ HasParam(node, "gainDb")
      [] Rank(node) = 15 -> node.type = "compressor"
      [] Rank(node) = 16 -> node.type = "gain" /\ node.sched # <<>>
      [] OTHER -> TRUE

\* the nodes a signal entering at the nodes of `from` reaches
RECURSIVE ReachableFrom(_)
ReachableFrom(from) ==
    LET more == from \cup {e.to : e \in {d \in G.edges : d.from \in from}}
    IN IF more = from THEN from ELSE ReachableFrom(more)

SourceNode == CHOOSE n \in NodeIds : G.nodes[n].name = "source"

(***************************************************************************)
(* C1.  Whatever the options, every connection of the graph processAudio   *)
(* builds leads forward in the fixed stage order (source, input trim, 85   *)
(* Hz high-pass, chorus, phaser, flanger, peaking 2800 / 4500 / 6200 Hz,   *)
(* high-shelf 8500 Hz, low-shelf 180 Hz, high-shelf 11000 Hz, compressor,  *)
(* waveshaper, makeup gain, limiter, fader, destination), staying at the   *)
(* same position only inside one effect unit; each position is what the    *)
(* order says it is, and the destination is reached from the source.  So   *)
(* every path from the source to the destination meets the stages that     *)
(* are present in this order, and no option swaps two of them.             *)
(***************************************************************************)
C1_StageOrder ==
    pa.pc = "startRendering" =>
        LET rank == [n \in NodeIds |-> Rank(G.nodes[n])]
        IN /\ \A e \in G.edges :
                /\ rank[e.from] <= rank[e.to]
                /\ rank[e.from] = rank[e.to] => rank[e.from] \in {3, 4, 5}
           /\ \A n \in NodeIds : StageShape(G.nodes[n])
           /\ Destination \in ReachableFrom({SourceNode})

C1_Witness ==
    /\ pa.pc = "startRendering"
    /\ pa.options.creativeFx.chorus > 0
    /\ pa.options.creativeFx.phaser > 0
    /\ pa.options.creativeFx.flanger > 0
    /\ pa.options.enableNaturalizer /\ pa.options.enableWarmth /\ pa.options.enableFades
    /\ {Rank(G.nodes[n]) : n \in NodeIds} = 0..17

(***************************************************************************)
(* C2.  In the chain processAudio builds, the chorus, phaser and flanger   *)
(* units are there exactly when their own intensity is > 0, the four       *)
(* naturalizer filters exactly when enableNaturalizer, the waveshaper      *)
(* exactly when enableWarmth, the fader exactly when enableFades; input    *)
(* trim, high-pass, low-shelf, high-shelf, compressor, makeup gain and     *)
(* limiter are there for every options value, once each.  Every            *)
(* connection between two stages leaves the output node of a stage and     *)
(* enters the next stage that is present, and every stage after the        *)
(* source has such an input.                                               *)
(***************************************************************************)
Named(name) == {n \in NodeIds : G.nodes[n].name = name /\ G.nodes[n].unit = "processAudio"}

C2_StagePresence ==
    pa.pc = "startRendering" =>
        LET stage == [n \in NodeIds |-> Stage(G.nodes[n])]
            present == {stage[n] : n \in NodeIds}
            crossEdges == {e \in G.edges : stage[e.from] # stage[e.to]}
            fed == {stage[e.to] : e \in crossEdges}
        IN /\ 3 \in present <=> pa.options.creativeFx.chorus > 0
           /\ 4 \in present <=> pa.options.creativeFx.phaser > 0
           /\ 5 \in present <=> pa.options.creativeFx.flanger > 0
           /\ \A name \in {"notch1", "notch2", "notch3", "silkTilt"} :
                 Cardinality(Named(name)) = IF pa.options.enableNaturalizer THEN 1 ELSE 0
           /\ Cardinality(Named("clipper")) = IF pa.options.enableWarmth THEN 1 ELSE 0
           /\ Cardinality(Named("fader")) = IF pa.options.enableFades THEN 1 ELSE 0
           /\ \A name \in {"source", "inputNode", "hpf", "lowShelf", "highShelf", "comp", "makeup", "limiter"} :
                 Cardinality(Named(name)) = 1
           /\ \A e \in crossEdges :
                 /\ IsStageOutput(G.nodes[e.from])
                 /\ e.param = ""
                 /\ stage[e.to] > stage[e.from]
                 /\ \A k \in present : ~(stage[e.from] < k /\ k < stage[e.to])
           /\ fed = present \ {0}

C2_Witness ==
    /\ pa.pc = "startRendering"
    /\ pa.options.creativeFx.chorus > 0
    /\ pa.options.creativeFx.phaser = 0
    /\ pa.options.creativeFx.flanger > 0
    /\ ~pa.options.enableNaturalizer /\ pa.options.enableWarmth /\ ~pa.options.enableFades
    /\ Present(3) /\ ~Present(4) /\ Present(5) /\ ~Present(6) /\ Present(13) /\ ~Present(16)

U16At(bytes, offset) == bytes[offset + 1] + 256 * bytes[offset + 2]
U32At(bytes, offset) ==
    bytes[offset + 1] + 256 * bytes[offset + 2] + 65536 * bytes[offset + 3] + 16777216 * bytes[offset + 4]
I16At(bytes, offset) ==
    LET u == U16At(bytes, offset) IN IF u >= 32768 THEN u - 65536 ELSE u

\* clamp to [-0.95, 0.95], times 32768 below zero and 32767 from zero up, the
\* fraction dropped
Pcm16(x) ==
    LET c == IF x > 950 THEN 950 ELSE IF x < -950 THEN -950 ELSE x
    IN IF c < 0 THEN -(((-c) * 32768) \div 1000) ELSE (c * 32767) \div 1000

(***************************************************************************)
(* C6.  For a buffer of C channels, F frames and rate R, audioBufferToWav  *)
(* returns 44 + F*C*2 bytes; the header declares format 1, C channels,     *)
(* rate R, byte rate R*C*2, block alignment C*2, 16 bits, RIFF size        *)
(* 36 + F*C*2 and data size F*C*2; the 16-bit sample of frame i, channel c *)
(* is at offset 44 + 2*(i*C + c).  The header of the 2-channel 48000 Hz    *)
(* buffer of ceil(5 * 48000) frames declares 2 channels, 48000 Hz, 16 bits *)
(* and 240000 * 2 * 2 data bytes.                                          *)
(***************************************************************************)
C6_WavLayout ==
    /\ encWav # <<>> =>
        LET C == encBuffer.numberOfChannels
            F == encBuffer.length
            R == encBuffer.sampleRate
        IN /\ Len(encWav) = 44 + F * C * 2
           /\ SubSeq(encWav, 1, 4) = <<82, 73, 70, 70>>
           /\ U32At(encWav, 4) = 36 + F * C * 2
           /\ SubSeq(encWav, 9, 16) = <<87, 65, 86, 69, 102, 109, 116, 32>>
           /\ U32At(encWav, 16) = 16
           /\ U16At(encWav, 20) = 1
           /\ U16At(encWav, 22) = C
           /\ U32At(encWav, 24) = R
           /\ U32At(encWav, 28) = R * C * 2
           /\ U16At(encWav, 32) = C * 2
           /\ U16At(encWav, 34) = 16
           /\ SubSeq(encWav, 37, 40) = <<100, 97, 116, 97>>
           /\ U32At(encWav, 40) = F * C * 2
           /\ \A i \in 0..(F - 1) : \A c \in 0..(C - 1) :
                 I16At(encWav, 44 + 2 * (i * C + c)) = Pcm16(encBuffer.channelData[c + 1][i + 1])
    /\ LET h == WavHeader(2, 48000, 240000)
       IN /\ U16At(h, 22) = 2 /\ U32At(h, 24) = 48000 /\ U16At(h, 34) = 16
          /\ U32At(h, 40) = 240000 * 2 * 2

C6_Witness ==
    /\ encWav # <<>>
    /\ encBuffer.numberOfChannels = 2
    /\ encBuffer.length = 2
    /\ encBuffer.channelData = << <<1000, 0>>, <<-500, -1000>> >>
    /\ SubSeq(encWav, 45, 52) = <<152, 121, 0, 192, 0, 0, 103, 134>>

(***************************************************************************)
(* C7.  Every 16-bit value audioBufferToWav writes and every 16-bit value  *)
(* audioBufferToMp3 hands to the codec is the sample clamped to            *)
(* [-0.95, 0.95], times 32768 when negative and 32767 otherwise, truncated *)
(* toward zero; it lies in -31130..31129, never at full scale.             *)
(***************************************************************************)
Mp3Fed(side) ==
    LET RECURSIVE Cat(_)
        Cat(k) == IF k = 0 THEN <<>>
                  ELSE Cat(k - 1) \o (IF side = "left" THEN encMp3.calls[k].left ELSE encMp3.calls[k].right)
    IN Cat(Len(encMp3.calls))

C7_SampleConversion ==
    /\ encWav # <<>> =>
          \A i \in 0..(encBuffer.length - 1) : \A c \in 0..(encBuffer.numberOfChannels - 1) :
              LET v == I16At(encWav, 44 + 2 * (i * encBuffer.numberOfChannels + c))
              IN /\ v = Pcm16(encBuffer.channelData[c + 1][i + 1])
                 /\ v >= -31130 /\ v <= 31129
    /\ encMp3.type # "" =>
          LET left == Mp3Fed("left")
              right == Mp3Fed("right")
          IN /\ Len(left) = encBuffer.length
             /\ \A i \in 1..Len(left) :
                   /\ left[i] = Pcm16(encBuffer.channelData[1][i])
                   /\ left[i] >= -31130 /\ left[i] <= 31129
             /\ \A i \in 1..Len(right) :
                   /\ right[i] = Pcm16(encBuffer.channelData[2][i])
                   /\ right[i] >= -31130 /\ right[i] <= 31129

C7_Witness ==
    /\ encWav # <<>> /\ encMp3.type # ""
    /\ encBuffer.channelData = << <<1000>>, <<-1000>> >>
    /\ I16At(encWav, 44) = 31128 /\ I16At(encWav, 46) = -31129
    /\ encMp3.calls[1].left = <<31128>> /\ encMp3.calls[1].right = <<-31129>>

(***************************************************************************)
(* C8.  Silence survives the PCM round trip: for a buffer whose samples    *)
(* are all zero, every 16-bit sample of the data section audioBufferToWav  *)
(* writes is 0, for every channel count and frame count.                   *)
(***************************************************************************)
Silent(buffer) ==
    \A c \in 1..buffer.numberOfChannels : \A i \in 1..buffer.length : buffer.channelData[c][i] = 0

C8_SilenceRoundTrip ==
    (encWav # <<>> /\ Silent(encBuffer)) =>
        /\ Len(encWav) = 44 + encBuffer.length * encBuffer.numberOfChannels * 2
        /\ \A n \in 0..(encBuffer.length * encBuffer.numberOfChannels - 1) : I16At(encWav, 44 + 2 * n) = 0

C8_Witness ==
    /\ encWav # <<>>
    /\ Silent(encBuffer)
    /\ encBuffer.numberOfChannels = 2
    /\ encBuffer.length = sampleBlockSize + 1

(***************************************************************************)
(* C9.  For F frames audioBufferToMp3 calls encodeBuffer ceil(F / 1152)    *)
(* times, the k-th call on the block starting at frame (k - 1) * 1152;     *)
(* the blocks do not overlap and together are every frame once, in order;  *)
(* every block but the last has 1152 samples; flush is called once, after  *)
(* the last encodeBuffer; the output is every non-empty chunk the calls    *)
(* returned, in the order of the calls, the flush chunk last.              *)
(***************************************************************************)
NonEmpty(chunk) == chunk.length > 0

C9_Mp3Blocks ==
    encMp3.type # "" =>
        LET F == encBuffer.length
            calls == encMp3.calls
            blocks == Len(calls) - 1
        IN /\ blocks * 1152 >= F /\ (blocks - 1) * 1152 < F
           /\ \A k \in 1..blocks :
                 /\ calls[k].op = "encodeBuffer"
                 /\ calls[k].at = (k - 1) * 1152
                 /\ Len(calls[k].left) = IF k < blocks THEN 1152 ELSE F - (blocks - 1) * 1152
                 /\ \A j \in 1..Len(calls[k].left) :
                       calls[k].left[j] = Pcm16(encBuffer.channelData[1][(k - 1) * 1152 + j])
           /\ calls[blocks + 1].op = "flush"
           /\ encMp3.mp3Data = SelectSeq([k \in 1..Len(calls) |-> calls[k].returned], NonEmpty)
           /\ \A k \in 1..Len(calls) : calls[k].returned.call = k

C9_Witness ==
    /\ encMp3.type # ""
    /\ encBuffer.length = 2 * sampleBlockSize + 1
    /\ Len(encMp3.calls) = 4
    /\ Len(encMp3.calls[3].left) = 1
    /\ encMp3.mp3Data = << [call |-> 1, length |-> 418], [call |-> 3, length |-> 418],
                           [call |-> 4, length |-> 418] >>

(***************************************************************************)
(* C3: a call of createChorus, createPhaser or createFlanger with an       *)
(* intensity of zero or less returns the node it was given and leaves the  *)
(* context as it was: no node is created, nothing is connected and nothing *)
(* is started.                                                             *)
(***************************************************************************)
C3_Bypass ==
    [][(fxCalls' = fxCalls + 1 /\ fxLast'.intensity <= 0)
         => /\ fxLast'.unit \in {"createChorus", "createPhaser", "createFlanger"}
            /\ fxLast'.input = fxChain
            /\ fxLast'.out = fxLast'.input
            /\ fxChain' = fxChain
            /\ fxCtx' = fxCtx]_vars

C3_Witness ==
    /\ fxCalls = MaxFxCalls
    /\ fxLast.unit = "createFlanger"
    /\ fxLast.intensity = 0
    /\ fxLast.out = fxLast.input
    /\ fxChain = fxLast.out
    /\ Len(fxCtx.nodes) > 2
    /\ fxCtx.nodes[fxChain].unit \in {"createChorus", "createPhaser"}

(***************************************************************************)
(* C5: a processAudio call either resolves with a complete Blob of the     *)
(* rendered buffer or rejects with no Blob at all.  handleProcess sets     *)
(* processedBlob only from a resolved call; when the call rejects,         *)
(* processedBlob keeps its value and the failure alert is raised.  Either  *)
(* way isProcessing is false from the moment the call has settled, and it  *)
(* is true exactly while a call is in flight.                              *)
(***************************************************************************)
InFlight(p) == p.pc \in {"arrayBuffer", "decodeAudioData", "startRendering"}

C5_AllOrNothing ==
    /\ [](isProcessing <=> InFlight(pa))
    /\ [](pa.pc = "resolved"
            => /\ pa.error = ""
               /\ pa.result.type \in {"audio/wav", "audio/mp3"}
               /\ pa.result.of = pa.renderedBuffer
               /\ pa.renderedBuffer = RenderedBuffer(pa.graph.ctx)
               /\ pa.renderedBuffer.length > 0)
    /\ [](pa.pc = "rejected"
            => /\ pa.result = NoBlob
               /\ pa.error \in {"read", "decode", "render", "encode"})
    /\ [][(InFlight(pa) /\ pa'.pc = "rejected")
            => /\ processedBlob' = processedBlob
               /\ alert' = "Failed to process audio. Format might be incompatible."
               /\ ~isProcessing']_vars
    /\ [][(InFlight(pa) /\ pa'.pc = "resolved")
            => /\ processedBlob' = pa'.result
               /\ alert' = alert
               /\ ~isProcessing']_vars
    /\ [][(processedBlob' # processedBlob /\ processedBlob' # NoBlob)
            => /\ InFlight(pa)
               /\ pa'.pc = "resolved"
               /\ processedBlob' = pa'.result]_vars

C5_Witness ==
    /\ pa.pc = "rejected"
    /\ pa.error = "encode"
    /\ pa.renderedBuffer # NoBuffer
    /\ pa.result = NoBlob
    /\ processedBlob = NoBlob
    /\ ~isProcessing
    /\ alert = "Failed to process audio. Format might be incompatible."
    /\ file # NoFile

(***************************************************************************)
(* C10: optimizeAudioForAnalysis, for a decoded source of D seconds.       *)
(* N is floor(min(D, 180) * 16000) exactly when N <= min(D, 180) * 16000   *)
(* < N + 1, which also says that the output is shorter than the trimmed    *)
(* source by less than one output frame.                                   *)
(***************************************************************************)
OaDecodedSource ==
    /\ oa.file.decodable
    /\ oa.pc \in {"startRendering", "readAsDataURL", "resolved", "rejected"}
    /\ oa.error # "read"

\* N = floor(min(D, 180) * 16000) for the buffer of L frames at rate r
IsFloorFrames(N, buffer) ==
    LET L == buffer.length
        r == buffer.sampleRate
        g == GCD(16000, r)
    IN IF L >= 180 * r THEN N = 180 * 16000
       ELSE /\ N * (r \div g) <= L * (16000 \div g)
            /\ L * (16000 \div g) < (N + 1) * (r \div g)

\* the source is shorter than one output frame: D * 16000 < 1
ShorterThanOneFrame(buffer) ==
    LET g == GCD(16000, buffer.sampleRate)
    IN buffer.length * (16000 \div g) < buffer.sampleRate \div g

C11_ByteIdentical ==
    (encBuffer.numberOfChannels = 1 /\ encMono # <<>> /\ encWav # <<>>) => encMono = encWav

(***************************************************************************)
(* C12: a failure inside optimizeAudioForAnalysis rejects its promise, and *)
(* handleAnalyze then calls no analysis, leaves analysis null, sets        *)
(* isAnalyzing back to false and shows an error that can be told apart     *)
(* from a failure of the analysis call: it is none of the messages that    *)
(* report that the analysis failed (the three of analyzeReferenceAudio and *)
(* the one handleAnalyze words itself, "Failed to analyze audio. The model *)
(* might be busy.").                                                       *)
(***************************************************************************)
ReportsAnalysisFailure(message) ==
    \/ message \in AnalysisMessages
    \/ message = "Failed to analyze audio. The model might be busy."

C12_NeverSilent ==
    /\ [](oa.error # "" => (oa.pc = "rejected" /\ ~oa.resolved))
    /\ [][(va.pc = "optimize" /\ oa'.pc = "rejected")
            => /\ requests' = requests
               /\ analysis' = NoAnalysis
               /\ ~isAnalyzing'
               /\ error' # ""
               /\ ~ReportsAnalysisFailure(error')]_vars

(***************************************************************************)
(* C13: the file VibeCloner holds, and every file it hands to              *)
(* optimizeAudioForAnalysis, has an audio/ type and at most 50 MiB; a      *)
(* chosen file that is turned down with an alert changes neither file nor  *)
(* analysis nor error, and starts nothing.                                 *)
(***************************************************************************)
Acceptable(f) == f.type[1] = "audio" /\ f.size <= 50 * 1024 * 1024

C13_FilePrecondition ==
    /\ [](vcFile # NoFile => Acceptable(vcFile))
    /\ [](va.file # NoFile => Acceptable(va.file))
    /\ [](oa.file # NoFile => Acceptable(oa.file))
    /\ [][vcAlert' # vcAlert
            => (vcFile' = vcFile /\ analysis' = analysis /\ error' = error /\ oa' = oa /\ va' = va)]_vars

C13_Witness ==
    /\ vcAlert = "File too large. Please use a clip under 50MB."
    /\ vcFile # NoFile
    /\ vcFile.size = 50 * 1024 * 1024
    /\ oa.pc = "resolved"
    /\ oa.file = vcFile
    /\ analysis # NoAnalysis

(***************************************************************************)
(* C14: the Blob processAudio resolves with is the output of one encoder   *)
(* run on the rendered buffer, tagged with that encoder's type: for        *)
(* exportFormat 'wav' audioBufferToWav and audio/wav (44 bytes and 2 bytes *)
(* per channel and frame), for the other format audioBufferToMp3 and       *)
(* audio/mp3.                                                              *)
(***************************************************************************)
C14_BlobType ==
    pa.pc = "resolved" =>
        /\ pa.result.of = pa.renderedBuffer
        /\ pa.renderedBuffer = RenderedBuffer(pa.graph.ctx)
        /\ IF pa.options.exportFormat = "wav"
           THEN /\ pa.result.encoder = "audioBufferToWav"
                /\ pa.result.type = "audio/wav"
                /\ pa.result.size = 44 + 2 * 2 * pa.renderedBuffer.length
                /\ U16At(pa.result.header, 22) = 2
                /\ U32At(pa.result.header, 24) = 48000
           ELSE /\ pa.result.encoder = "audioBufferToMp3"
                /\ pa.result.type = "audio/mp3"

C14_Witness ==
    /\ pa.pc = "resolved"
    /\ pa.options.exportFormat = "wav"
    /\ pa.file.audio = [numberOfChannels |-> 1, sampleRate |-> 44100, length |-> 220500]
    /\ pa.result.type = "audio/wav"
    /\ pa.result.size = 44 + 960000

(***************************************************************************)
(* C15: whatever the user did before, a download is named                  *)
(* AfriSuno_Enhanced_<base>.<ext>, where the downloaded Blob is the result *)
(* of the latest processAudio call, <base> is the name of the file that    *)
(* call was given with its extension removed, and <ext> is the format the  *)
(* Blob is encoded in.                                                     *)
(***************************************************************************)
EncodedFormat(blob) == IF blob.type = "audio/wav" THEN "wav" ELSE "mp3"

C15_DownloadName ==
    [][downloaded' # downloaded
         => /\ pa.pc = "resolved"
            /\ downloaded'.blob = pa.result
            /\ downloaded'.name = <<"AfriSuno_Enhanced_">> \o StripExtension(pa.file.name)
                                     \o <<".", EncodedFormat(downloaded'.blob)>>]_vars

(***************************************************************************)
(* Reading the fader of a built graph: its gain at frame t of the source's *)
(* rate r, for a source of L frames.                                       *)
(***************************************************************************)
Faded == pa.pc \in {"startRendering", "resolved"} /\ pa.options.enableFades

FaderNode == CHOOSE k \in 1..Len(pa.graph.ctx.nodes) : pa.graph.ctx.nodes[k].name = "fader"

FaderGain(t) ==
    ValueAtTime(Timeline(pa.graph.ctx.nodes[FaderNode].sched, pa.file.audio.sampleRate),
                t, pa.file.audio.sampleRate)

Reduce(x) == LET g == GCD(x[1], x[2]) IN IF g = 0 THEN x ELSE <<x[1] \div g, x[2] \div g>>

\* the frames looked at: the ends, the corners of the envelope and their
\* neighbours, and sixteen steps across the source
ProbeFrames(L, r) ==
    { t \in {0, 1, L - 1, L} \cup {4 * (r \div 5) + d : d \in {-1, 0, 1}}
            \cup {L - 3 * r + d : d \in {-1, 0, 1}} \cup {L - 3 * (r \div 2)}
            \cup {(k * L) \div 16 : k \in 0..16} :
        t >= 0 /\ t <= L }

(***************************************************************************)
(* C16: with fades on and a source of D >= 3.8 s (L frames at rate r, 5L   *)
(* >= 19r), the gain is t / 0.8 s up to 0.8 s, 1 from 0.8 s to D - 3 s and *)
(* (D - t) / 3 s from there to D; for 10 s: 0 at 0, 1 at 0.8 s and at 7 s, *)
(* 0 at 10 s.                                                              *)
(***************************************************************************)
C16_FadeEnvelope ==
    (Faded /\ 5 * pa.file.audio.length >= 19 * pa.file.audio.sampleRate) =>
        LET L == pa.file.audio.length
            r == pa.file.audio.sampleRate
            in08 == 4 * (r \div 5)
        IN \A t \in ProbeFrames(L, r) :
              /\ t <= in08 => Reduce(FaderGain(t)) = Reduce(<<t, in08>>)
              /\ (in08 <= t /\ t <= L - 3 * r) => Reduce(FaderGain(t)) = <<1, 1>>
              /\ t >= L - 3 * r => Reduce(FaderGain(t)) = Reduce(<<L - t, 3 * r>>)

(***************************************************************************)
(* C17: with fades on, for every source (D > 0) the gain is 0 at the first *)
(* frame and 0 at time D, stays within [0, 1], and rises up to some time   *)
(* and falls from there on.                                                *)
(***************************************************************************)
C17_FadeShape ==
    Faded =>
        LET L == pa.file.audio.length
            r == pa.file.audio.sampleRate
            T == ProbeFrames(L, r)
            gain == [t \in T |-> FaderGain(t)]
            Leq(x, y) == x[1] * (y[2] \div GCD(x[2], y[2])) <= y[1] * (x[2] \div GCD(x[2], y[2]))
        IN /\ gain[0][1] = 0
           /\ gain[L][1] = 0
           /\ \A t \in T : gain[t][1] >= 0 /\ gain[t][1] <= gain[t][2]
           /\ \E peak \in T : \A t, u \in T :
                 /\ (t <= u /\ u <= peak) => Leq(Reduce(gain[t]), Reduce(gain[u]))
                 /\ (peak <= t /\ t <= u) => Leq(Reduce(gain[u]), Reduce(gain[t]))

(***************************************************************************)
(* Two calls side by side: what one call is given and what it has made.    *)
(***************************************************************************)
SameInput(p, q) == p.file.audio = q.file.audio /\ p.file.decodable = q.file.decodable /\ p.options = q.options

HasGraph(p) == p.graph # NoChain

\* what the call has made so far: the graph handed to startRendering, the
\* rendered buffer and the Blob returned
Made(p) == [graph |-> p.graph, renderedBuffer |-> p.renderedBuffer, result |-> p.result]

OnlyStereoWidthDiffers(p, q) ==
    /\ p.file.audio = q.file.audio
    /\ p.file.decodable = q.file.decodable
    /\ p.options.stereoWidth # q.options.stereoWidth
    /\ [p.options EXCEPT !.stereoWidth = q.options.stereoWidth] = q.options

C19_StereoWidthIgnored ==
    OnlyStereoWidthDiffers(pa, pb) =>
        /\ (HasGraph(pa) /\ HasGraph(pb)) => pa.graph = pb.graph
        /\ (pa.pc = "resolved" /\ pb.pc = "resolved") => Made(pa) = Made(pb)

\* both calls have returned; the first was given what the lofi preset button
\* leaves, the second the same with the width set to wide
C19_Witness ==
    /\ pa.options = applyPreset(InitialOptions, "lofi")
    /\ pb.options = [pa.options EXCEPT !.stereoWidth = "wide"]
    /\ OnlyStereoWidthDiffers(pa, pb)
    /\ pa.pc = "resolved"
    /\ pb.pc = "resolved"
    /\ pb.result # NoBlob

(***************************************************************************)
(* A call run with no other call: its record once the graph is built, and  *)
(* once it has returned.                                                   *)
(***************************************************************************)
PaAlone(f, opts) == PaDecoded(PaArrayBuffer(PaCall(f, opts), TRUE))

OaAlone(f) == OaDecoded(OaArrayBuffer(OaCall(f), TRUE))

AsAlone(p) ==
    /\ HasGraph(p) => p.graph = PaAlone(p.file, p.options).graph
    /\ p.pc = "resolved" => Made(p) = Made(PaRendered(PaAlone(p.file, p.options), TRUE, TRUE))

Units(ctx) == {ctx.nodes[k].unit : k \in 1..Len(ctx.nodes)}

TheNode(name) == G.nodes[CHOOSE n \in Named(name) : TRUE]

Dynamics ==
    [trim |-> TheNode("inputNode").p, comp |-> TheNode("comp").p,
     makeup |-> TheNode("makeup").p, limiter |-> TheNode("limiter").p]

DynamicsFor(high) ==
    [trim |-> {<<"gainDb", -200000>>},
     comp |-> {<<"threshold", IF high THEN -280000 ELSE -240000>>, <<"knee", 350000>>,
               <<"ratio", IF high THEN 25000 ELSE 15000>>, <<"attack", 400>>, <<"release", 2500>>},
     makeup |-> {<<"gainDb", IF high THEN 150000 ELSE 130000>>},
     limiter |-> {<<"threshold", -20000>>, <<"knee", 0>>, <<"ratio", 200000>>,
                  <<"attack", 10>>, <<"release", 1500>>}]

(***************************************************************************)
(* C21: in every graph processAudio builds the headroom trim is -20 dB;    *)
(* the compressor has threshold -28 dB, ratio 2.5 and the makeup gain is   *)
(* +15 dB when intensity is high, and -24 dB, 1.5 and +13 dB otherwise     *)
(* (low and medium alike); knee 35, attack 40 ms, release 250 ms and the   *)
(* limiter (-2 dB, knee 0, ratio 20, attack 1 ms, release 150 ms) are the  *)
(* same for every options value.                                           *)
(***************************************************************************)
C21_DynamicsByIntensity ==
    Built => Dynamics = DynamicsFor(pa.options.intensity = "high")

\* a graph built for medium intensity with options far from the defaults
C21_Witness ==
    /\ Built
    /\ pa.options.intensity = "medium"
    /\ pa.options.preset = "lofi"
    /\ ~pa.options.enableWarmth
    /\ pa.options.stereoWidth = "wide"
    /\ TheNode("comp").p # {}

(***************************************************************************)
(* The encodeBuffer calls audioBufferToMp3 made, and the block of a        *)
(* channel a call at frame `at` covers, in the 16-bit representation.      *)
(***************************************************************************)
EncodeCalls == {k \in 1..Len(encMp3.calls) : encMp3.calls[k].op = "encodeBuffer"}

BlockOf(channel, at) ==
    LET to == Min(at + sampleBlockSize, encBuffer.length)
    IN [i \in 1..(to - at) |-> Pcm16(encBuffer.channelData[channel + 1][at + i])]

StereoBlocks ==
    \A k \in EncodeCalls :
        LET call == encMp3.calls[k]
        IN /\ call.at = (k - 1) * sampleBlockSize
           /\ call.left = BlockOf(0, call.at)
           /\ call.hasRight
           /\ call.right = BlockOf(1, call.at)

(***************************************************************************)
(* C22 as claimed: for a one-channel buffer the right block handed to the  *)
(* codec in every call equals the left block of that call; for a           *)
(* two-channel buffer the left and right blocks are those of channels 0    *)
(* and 1 over the same frames.                                             *)
(***************************************************************************)
C22_MonoDuplicated ==
    encMp3.type # "" =>
        IF encBuffer.numberOfChannels = 1
        THEN \A k \in EncodeCalls :
                LET call == encMp3.calls[k]
                IN /\ call.left = BlockOf(0, call.at)
                   /\ call.hasRight
                   /\ call.right = call.left
        ELSE StereoBlocks

(***************************************************************************)
(* C22 as the code has it: for a one-channel buffer the encoder is made    *)
(* for one channel and every call is handed the left block of its frames   *)
(* and no right block; for a two-channel buffer the left and right blocks  *)
(* are those of channels 0 and 1 over the same frames.                     *)
(***************************************************************************)
C22_ChannelBlocks ==
    encMp3.type # "" =>
        IF encBuffer.numberOfChannels = 1
        THEN /\ encMp3.encoder.channels = 1
             /\ \A k \in EncodeCalls :
                   LET call == encMp3.calls[k]
                   IN /\ call.at = (k - 1) * sampleBlockSize
                      /\ call.left = BlockOf(0, call.at)
                      /\ ~call.hasRight
                      /\ call.right = <<>>
        ELSE StereoBlocks

\* a one-channel buffer of two blocks and a frame, not silent, has been encoded
C22_Witness ==
    /\ encMp3.type # ""
    /\ encBuffer.numberOfChannels = 1
    /\ encBuffer.length = 2 * sampleBlockSize + 1
    /\ Cardinality(EncodeCalls) = 3
    /\ encMp3.calls[2].left # encMp3.calls[1].left

(***************************************************************************)
(* Cycles of a built graph.  Loop(n) is the set of nodes on a directed     *)
(* cycle through n (empty when there is none); connections to AudioParams  *)
(* count as connections.                                                   *)
(***************************************************************************)
Successors(n) == {e.to : e \in {d \in G.edges : d.from = n}}

Loop(n) ==
    LET after == ReachableFrom(Successors(n))
    IN IF Successors(n) = {} \/ n \notin after THEN {}
       ELSE {m \in after : Successors(m) # {} /\ n \in ReachableFrom(Successors(m))}

FxUnits == {"createChorus", "createPhaser", "createFlanger"}

FxLevel(opts, unit) ==
    CASE unit = "createChorus" -> opts.creativeFx.chorus
      [] unit = "createPhaser" -> opts.creativeFx.phaser
      [] unit = "createFlanger" -> opts.creativeFx.flanger

Without(opts, unit) ==
    CASE unit = "createChorus" -> [opts EXCEPT !.creativeFx.chorus = 0]
      [] unit = "createPhaser" -> [opts EXCEPT !.creativeFx.phaser = 0]
      [] unit = "createFlanger" -> [opts EXCEPT !.creativeFx.flanger = 0]

UnitNodes(unit) == {n \in NodeIds : G.nodes[n].unit = unit}

\* the nodes outside a unit that are connected into it: the input it was given
InputsOf(unit) ==
    {e.from : e \in {d \in G.edges : d.to \in UnitNodes(unit) /\ d.from \notin UnitNodes(unit)}}

Incoming(ctx, n) == {e \in ctx.edges : e.to = n}

(***************************************************************************)
(* C23: in every graph processAudio builds, every directed cycle lies      *)
(* inside the nodes of the one createPhaser call or of the one             *)
(* createFlanger call; no node of the chorus unit or of the rest of the    *)
(* chain is on a cycle; and the node an effect unit was given is as it is  *)
(* in the graph built without that unit: the same parameters and the same  *)
(* incoming connections, the unit adding only connections that leave it.   *)
(***************************************************************************)
C23_CyclesLocal ==
    Built =>
        /\ \A n \in NodeIds :
              Loop(n) # {} =>
                 /\ G.nodes[n].unit \in {"createPhaser", "createFlanger"}
                 /\ \A m \in Loop(n) : G.nodes[m].unit = G.nodes[n].unit
        /\ \A unit \in FxUnits :
              FxLevel(pa.options, unit) > 0 =>
                 LET G0 == BuildChain(pa.audioBuffer, Without(pa.options, unit)).ctx
                 IN /\ Cardinality(InputsOf(unit)) = 1
                    /\ \A i \in InputsOf(unit) :
                          /\ G.nodes[i] = G0.nodes[i]
                          /\ Incoming(G, i) = Incoming(G0, i)
                          /\ \E e \in G.edges : e.from = i /\ e.to \in UnitNodes(unit)

\* a graph with the three units, the phaser and the flanger each with a loop
C23_Witness ==
    /\ Built
    /\ \A unit \in FxUnits : FxLevel(pa.options, unit) > 0
    /\ \E n \in UnitNodes("createPhaser") : Cardinality(Loop(n)) = 5
    /\ \E n \in UnitNodes("createFlanger") : Cardinality(Loop(n)) = 2
    /\ \A n \in UnitNodes("createChorus") : Loop(n) = {}

(***************************************************************************)
(* C24: in every graph processAudio builds, every cycle holds a delay node *)
(* and a gain node whose gain is below 1: at most 0.5 in the flanger and   *)
(* at most 0.4 in the phaser for an intensity in (0, 1].                   *)
(***************************************************************************)
LoopGainLimit(unit) == IF unit = "createFlanger" THEN 5000 ELSE 4000

C24_FeedbackDelayed ==
    Built =>
        \A n \in NodeIds :
            Loop(n) # {} =>
               /\ \E m \in Loop(n) : G.nodes[m].type = "delay"
               /\ \E m \in Loop(n) :
                     /\ G.nodes[m].type = "gain"
                     /\ Param(G.nodes[m], "gain") < 10000
                     /\ Param(G.nodes[m], "gain") <= LoopGainLimit(G.nodes[n].unit)

(***************************************************************************)
(* Reading the table of makeSilkCurve.  The only index whose input is the  *)
(* negative of the input of i is n_samples - i.                            *)
(***************************************************************************)
Mirror(i) == n_samples - i

Negated(entry) == [entry EXCEPT !.sign = -entry.sign]

\* the entry is the input itself: sign * linear = 2i - n_samples, nothing added
IsInput(entry, i) == entry.tanhOf = 0 /\ entry.sign * entry.linear = SilkInput(i)

\* |entry| <= 0.95, by tanh(t) <= t: linear / n + tanhOf / (4 n) <= 19 / 20
WithinLimit(entry) ==
    /\ entry.linear >= 0
    /\ entry.tanhOf >= 0
    /\ 20 * (4 * entry.linear + entry.tanhOf) <= 76 * n_samples

SilkShape ==
    /\ silk.i \in 0..(n_samples - 1)
    /\ 10 * Abs(SilkInput(silk.i)) < 7 * n_samples => IsInput(silk.entry, silk.i)
    /\ WithinLimit(silk.entry)

(***************************************************************************)
(* C25 as claimed: the table has 48000 entries, entry i for the input      *)
(* x = 2i/48000 - 1; for every index the table has an entry for -x, which  *)
(* holds the negative of the entry for x; the entry is x itself when       *)
(* |x| < 0.7; and every entry is at most 0.95 in magnitude.                *)
(***************************************************************************)
C25_OddSymmetric ==
    silk.pc = "written" =>
        /\ SilkShape
        /\ Mirror(silk.i) \in 0..(n_samples - 1)
        /\ SilkEntry(Mirror(silk.i)) = Negated(silk.entry)

(***************************************************************************)
(* C25 as the code has it: the same, but the first entry, for x = -1, has  *)
(* no counterpart (x = 1 is the input of no entry); every other entry i    *)
(* has its counterpart at 48000 - i, holding its negative.                 *)
(***************************************************************************)
C25_OddSymmetricButFirst ==
    silk.pc = "written" =>
        /\ SilkShape
        /\ IF silk.i = 0
           THEN /\ SilkInput(silk.i) = -n_samples
                /\ \A j \in 0..(n_samples - 1) : SilkInput(j) # n_samples
           ELSE /\ Mirror(silk.i) \in 1..(n_samples - 1)
                /\ SilkInput(Mirror(silk.i)) = -SilkInput(silk.i)
                /\ SilkEntry(Mirror(silk.i)) = Negated(silk.entry)

\* an entry of the shaped part, below -0.7, has been written
C25_Witness ==
    /\ silk.pc = "written"
    /\ silk.i = 100
    /\ silk.entry.sign = -1
    /\ silk.entry.tanhOf > 0
    /\ SilkEntry(Mirror(silk.i)).sign = 1

(***************************************************************************)
(* C26: in AudioEnhancer, whenever processedBlob is set it is the result   *)
(* of a processAudio call that was given the file selected now; a result   *)
(* made from a file since cleared or replaced is never stored.             *)
(***************************************************************************)
C26_BlobOfSelectedFile ==
    processedBlob # NoBlob =>
        /\ file # NoFile
        /\ pa.pc = "resolved"
        /\ processedBlob = pa.result
        /\ pa.file = file

(***************************************************************************)
(* Reading the App: the lyrics of the stored vibes, and the content shown. *)
(***************************************************************************)
Stored == IF localStorage.present THEN localStorage.text ELSE <<>>

ShownIsStored ==
    \E k \in 1..Len(Stored) : Stored[k].lyrics = app.generatedContent.lyrics

(***************************************************************************)
(* C27: once the effects of a render have run, content that was loaded     *)
(* from the library is marked as saved (isSaved), so it cannot be saved a  *)
(* second time, and stays so until generatedContent changes.  Content      *)
(* whose lyrics are those of a stored vibe was either loaded from the      *)
(* library or saved from the generator, and it is the same content until   *)
(* generatedContent changes.                                               *)
(***************************************************************************)
C27_LoadedStaysSaved ==
    (effects = {} /\ app.generatedContent # NoContent /\ ShownIsStored) => app.isSaved

(***************************************************************************)
(* C28: at most one call of the service is in flight; while isLoading no   *)
(* handler makes another call; and generatedContent is overwritten with a  *)
(* response only by the response to the call made last.                    *)
(***************************************************************************)
C28_OneCallInFlight ==
    /\ [](Cardinality(aiCalls) <= 1)
    /\ [][app.isLoading => made'.calls = made.calls]_vars
    /\ [][\A r \in aiCalls :
             (r \notin aiCalls' /\ app'.generatedContent = Content(r.id)) => r.id = made.calls]_vars

(***************************************************************************)
(* C29: step 'results' is shown with generatedContent set only; when a     *)
(* generateSong call settles, isLoading is false and either the step is    *)
(* 'results' and generatedContent the response, or the step is             *)
(* 'clarifying', an error is shown and generatedContent is as it was;      *)
(* every generateSong call made settles so; and the step does not stay     *)
(* 'generating'.                                                           *)
(***************************************************************************)
C29_GeneratingEnds ==
    /\ [](app.step = "results" => app.generatedContent # NoContent)
    /\ [][\A r \in aiCalls :
             (r.kind = "generate" /\ r \notin aiCalls')
                 => /\ ~app'.isLoading
                    /\ \/ /\ app'.step = "results"
                          /\ app'.generatedContent = Content(r.id)
                       \/ /\ app'.step = "clarifying"
                          /\ app'.error # ""
                          /\ app'.generatedContent = app.generatedContent]_vars
    /\ \A n \in 1..MaxCalls :
          ([id |-> n, kind |-> "generate"] \in aiCalls)
              ~> ([id |-> n, kind |-> "generate"] \notin aiCalls)
    /\ (app.step = "generating") ~> (app.step # "generating")

\* a generation failed after a vibe was loaded: the error is shown over the
\* loaded content, in step 'clarifying'
C29_Witness ==
    /\ app.step = "clarifying"
    /\ app.error = "Failed to generate the vibe. Please try again."
    /\ app.generatedContent.lyrics = ToString(0)
    /\ ~app.isLoading
    /\ aiCalls = {}

(***************************************************************************)
(* C30: the list stored under 'afriSunoVibes' holds each vibe once, newest *)
(* first; it changes only by a save, which puts one new vibe in front of   *)
(* the stored ones, or by a delete, which takes out the vibe with the id   *)
(* given and no other, and after which the list stored is the list the     *)
(* library shows.                                                          *)
(***************************************************************************)
C30_StoredList ==
    /\ [](\A j, k \in 1..Len(Stored) :
             j < k => Stored[j].id # Stored[k].id /\ Stored[j].timestamp >= Stored[k].timestamp)
    /\ [](app.view = "library" /\ effects = {} => vibes = Stored)
    /\ [][localStorage' # localStorage
             => \/ /\ Len(localStorage'.text) = Len(Stored) + 1
                   /\ Tail(localStorage'.text) = Stored
                   /\ app'.isSaved
                   /\ Head(localStorage'.text).lyrics = app.generatedContent.lyrics
                \/ /\ localStorage'.present
                   /\ vibes' = localStorage'.text
                   /\ \E k \in 1..Len(Stored) :
                         /\ Len(localStorage'.text) = Len(Stored) - 1
                         /\ \A j \in 1..Len(localStorage'.text) :
                               localStorage'.text[j] = Stored[IF j < k THEN j ELSE j + 1]]_vars

\* a vibe was saved in front of the one stored before, which was then deleted
C30_Witness ==
    /\ made.saves = 1
    /\ Len(Stored) = 1
    /\ Stored[1].id = ToString(1)
    /\ app.view = "library"
    /\ vibes = Stored

====
